---- MODULE Spec2Model ----
(***************************************************************************)
(* Demand-paged virtual memory simulator: the MMU (page tables, TLB, free  *)
(* frame list, physical memory map, copy-on-write sharing), the round-     *)
(* robin scheduler and the orchestrator's main loop.                       *)
(*                                                                         *)
(* Python lists indexed from 0 are functions on 0..n-1; the free frame     *)
(* list (a stack), the ready queue (a deque) and the step trace are        *)
(* sequences.                                                              *)
(***************************************************************************)
EXTENDS Integers, Sequences, FiniteSets, TLC

(***************************************************************************)
(* Bounds of the explored configurations.                                  *)
(***************************************************************************)
MaxProcs == 2
MaxPages == 2
MaxFrames == 3
MaxTlb == 2
MaxRefs == 4

VARIABLES
    config,           \* VirtualMemoryImplementor.config (NoConfig when None)
    mmu,              \* the MMU object, with the process list it shares
    ready_queue,      \* Scheduler.ready_queue
    current_process,  \* Scheduler.current_process (-1 when None)
    completed_count,  \* Scheduler.completed_count
    steps,            \* VirtualMemoryImplementor.steps
    is_running,       \* VirtualMemoryImplementor.is_running
    pc,               \* position of the orchestrator in run_simulation
    access,           \* access kind of the reference being serviced
    result            \* how the last call of configure or run_simulation ended

vars == <<config, mmu, ready_queue, current_process, completed_count, steps,
          is_running, pc, access, result>>

(***************************************************************************)
(* Small helpers.                                                          *)
(***************************************************************************)
Range(n) == 0 .. (n - 1)

SetMin(S) == CHOOSE x \in S : \A y \in S : x <= y

SetMax(S) == CHOOSE x \in S : \A y \in S : x >= y

RECURSIVE SumOver(_, _)
SumOver(f, S) ==
    IF S = {} THEN 0
    ELSE LET x == CHOOSE y \in S : TRUE IN f[x] + SumOver(f, S \ {x})

\* Python's list indexing: a negative index counts from the end.
PyIndex(i, n) == IF i < 0 THEN i + n ELSE i

\* Python's int(a / b) for b # 0: the quotient truncated towards zero.
TruncDiv(a, b) ==
    LET abs(x) == IF x < 0 THEN -x ELSE x
        q == abs(a) \div abs(b)
    IN  IF (a < 0) = (b < 0) THEN q ELSE -q

Algorithms == {"LRU", "MRU", "FIFO", "LFU"}

AccessKinds == {"READ", "WRITE"}

(***************************************************************************)
(* Data structures.                                                        *)
(***************************************************************************)
PTEntry == [frame |-> -1, valid |-> FALSE, time |-> 0, frequency |-> 0,
            read_only |-> FALSE, shared |-> FALSE]

TLBEntry == [pid |-> -1, pageno |-> -1, frameno |-> -1, time |-> 0,
             valid |-> FALSE]

Process(pid, m, refs) ==
    [pid |-> pid, m |-> m, allocount |-> 0, usecount |-> 0,
     reference_string |-> refs, current_index |-> 0, completed |-> FALSE]

\* What FreeFrameList.allocate returns for an empty list.
None == "None"

\* FreeFrameList.allocate: pop the last frame of the list; None, and the list
\* as it is, when the list is empty.
allocate(frames) ==
    IF Len(frames) = 0 THEN [frame |-> None, frames |-> frames]
    ELSE [frame |-> frames[Len(frames)],
          frames |-> SubSeq(frames, 1, Len(frames) - 1)]

\* FreeFrameList.deallocate: append the frame to the list.
deallocate(frames, frame) == Append(frames, frame)

(***************************************************************************)
(* MMU.  Every operation takes the MMU object M (a record of its fields,   *)
(* M.processes being the process list shared with the scheduler and the    *)
(* orchestrator) and yields the MMU after the call.                        *)
(***************************************************************************)
MMU(num_processes, max_pages, num_frames, tlb_size, algorithm, enable_shared_memory) ==
    [core |-> "backend",
     k |-> num_processes, m |-> max_pages, f |-> num_frames, s |-> tlb_size,
     algorithm |-> algorithm,
     enable_shared_memory |-> enable_shared_memory,
     page_table |-> [p \in Range(num_processes) |-> [g \in Range(max_pages) |-> PTEntry]],
     tlb |-> [i \in Range(tlb_size) |-> TLBEntry],
     free_frames |-> [i \in 1 .. num_frames |-> num_frames - i],
     physical_memory |-> [fr \in Range(num_frames) |-> -1],
     timestamp |-> 0,
     page_fault_counts |-> [p \in Range(num_processes) |-> 0],
     tlb_hit_count |-> 0,
     page_hit_count |-> 0,
     processes |-> <<>>,
     shared_page_numbers |-> IF enable_shared_memory THEN {0} ELSE {}]

\* The MMU of python/core: the same fields without the sharing ones, which are
\* kept here at their inert values so that both classes are one record shape.
PyMMU(num_processes, max_pages, num_frames, tlb_size, algorithm) ==
    [MMU(num_processes, max_pages, num_frames, tlb_size, algorithm, FALSE)
        EXCEPT !.core = "python"]

set_processes(M, processes) == [M EXCEPT !.processes = processes]

TlbMatches(M, process_id, page_number) ==
    {i \in Range(M.s) : /\ M.tlb[i].valid
                        /\ M.tlb[i].pid = process_id
                        /\ M.tlb[i].pageno = page_number}

check_tlb(M, process_id, page_number) ==
    LET hits == TlbMatches(M, process_id, page_number) IN
    IF hits # {} THEN [frame |-> M.tlb[SetMin(hits)].frameno, hit |-> TRUE]
    ELSE [frame |-> -1, hit |-> FALSE]

update_tlb_time(M, process_id, page_number) ==
    LET hits == TlbMatches(M, process_id, page_number) IN
    IF hits # {} THEN [M EXCEPT !.tlb[SetMin(hits)].time = M.timestamp]
    ELSE M

\* A TLB that, when full, always replaces its first slot.
update_tlb_ReplacesFirst(M, process_id, page_number, frame_number) ==
    LET hits == TlbMatches(M, process_id, page_number)
        empty == {i \in Range(M.s) : ~M.tlb[i].valid}
    IN  IF hits # {}
        THEN [M EXCEPT !.tlb[SetMin(hits)].frameno = frame_number,
                       !.tlb[SetMin(hits)].time = M.timestamp]
        ELSE IF empty # {}
        THEN [M EXCEPT !.tlb[SetMin(empty)] =
                 [pid |-> process_id, pageno |-> page_number,
                  frameno |-> frame_number, time |-> M.timestamp, valid |-> TRUE]]
        ELSE [M EXCEPT !.tlb[0] =
                 [@ EXCEPT !.pid = process_id, !.pageno = page_number,
                           !.frameno = frame_number, !.time = M.timestamp]]

update_tlb(M, process_id, page_number, frame_number) ==
    LET hits == TlbMatches(M, process_id, page_number)
        empty == {i \in Range(M.s) : ~M.tlb[i].valid}
        min_time == SetMin({M.tlb[i].time : i \in Range(M.s)})
        lru == SetMin({i \in Range(M.s) : M.tlb[i].time = min_time})
    IN  IF hits # {}
        THEN [M EXCEPT !.tlb[SetMin(hits)].frameno = frame_number,
                       !.tlb[SetMin(hits)].time = M.timestamp]
        ELSE IF empty # {}
        THEN [M EXCEPT !.tlb[SetMin(empty)] =
                 [pid |-> process_id, pageno |-> page_number,
                  frameno |-> frame_number, time |-> M.timestamp, valid |-> TRUE]]
        ELSE [M EXCEPT !.tlb[lru] =
                 [@ EXCEPT !.pid = process_id, !.pageno = page_number,
                           !.frameno = frame_number, !.time = M.timestamp]]

\* The valid pages of a process that an eviction scans.
ValidPages(M, process_id) ==
    {g \in Range(M.processes[process_id].m) : M.page_table[process_id][g].valid}

\* An eviction that forgets the TLB: the victim's TLB entries stay valid.
InvalidateVictim_KeepsTlb(M, process_id, victim_page) ==
    LET g == PyIndex(victim_page, M.m) IN
    [frame |-> M.page_table[process_id][g].frame,
     mmu |-> [M EXCEPT !.page_table[process_id][g].valid = FALSE]]

\* The tail shared by the four _evict_* methods: invalidate the victim's entry
\* and its TLB entries, return its frame.  victim_page is -1 when the scan found
\* no valid page; the list index -1 is then the last entry of the page table.
InvalidateVictim(M, process_id, victim_page) ==
    LET g == PyIndex(victim_page, M.m) IN
    [frame |-> M.page_table[process_id][g].frame,
     mmu |-> [M EXCEPT
        !.page_table[process_id][g].valid = FALSE,
        !.tlb = [i \in Range(M.s) |->
                    IF /\ M.tlb[i].valid
                       /\ M.tlb[i].pid = process_id
                       /\ M.tlb[i].pageno = victim_page
                    THEN [M.tlb[i] EXCEPT !.valid = FALSE]
                    ELSE M.tlb[i]]]]

evict_lru(M, process_id) ==
    LET cand == ValidPages(M, process_id)
        min_time == SetMin({M.page_table[process_id][g].time : g \in cand})
        victim_page ==
            IF cand = {} THEN -1
            ELSE SetMin({g \in cand : M.page_table[process_id][g].time = min_time})
    IN  InvalidateVictim(M, process_id, victim_page)

evict_mru(M, process_id) ==
    LET cand == ValidPages(M, process_id)
        max_time == SetMax({M.page_table[process_id][g].time : g \in cand})
        victim_page ==
            IF cand = {} THEN -1
            ELSE SetMin({g \in cand : M.page_table[process_id][g].time = max_time})
    IN  InvalidateVictim(M, process_id, victim_page)

\* A FIFO that looks at the time of the entries, as LRU does.
evict_fifo_ByTime(M, process_id) == evict_lru(M, process_id)

\* A FIFO that evicts the page in the largest frame instead of the smallest.
evict_fifo_LargestFrame(M, process_id) ==
    LET cand == ValidPages(M, process_id)
        max_frame == SetMax({M.page_table[process_id][g].frame : g \in cand})
        victim_page ==
            IF cand = {} THEN -1
            ELSE SetMin({g \in cand : M.page_table[process_id][g].frame = max_frame})
    IN  InvalidateVictim(M, process_id, victim_page)

\* A textbook FIFO: the victim is the valid page of the process that was
\* faulted in first, by the order of the "handled" steps of the trace.
evict_fifo_FirstIn(M, process_id) ==
    LET cand == ValidPages(M, process_id)
        fault_in(g) ==
            SetMax({0} \cup {i \in 1 .. Len(steps) :
                        /\ steps[i].process_id = process_id
                        /\ steps[i].page_number = g
                        /\ steps[i].event \in {"page_fault_handled",
                                               "protection_fault_handled"}})
        first == SetMin({fault_in(g) : g \in cand})
        victim_page ==
            IF cand = {} THEN -1
            ELSE SetMin({g \in cand : fault_in(g) = first})
    IN  InvalidateVictim(M, process_id, victim_page)

evict_fifo(M, process_id) ==
    LET cand == ValidPages(M, process_id)
        min_frame == SetMin({M.page_table[process_id][g].frame : g \in cand})
        victim_page ==
            IF cand = {} THEN -1
            ELSE SetMin({g \in cand : M.page_table[process_id][g].frame = min_frame})
    IN  InvalidateVictim(M, process_id, victim_page)

\* An LFU whose scan compares with <=, so that the last of the least used
\* pages is taken instead of the first.
evict_lfu_LastOnTies(M, process_id) ==
    LET cand == ValidPages(M, process_id)
        min_freq == SetMin({M.page_table[process_id][g].frequency : g \in cand})
        victim_page ==
            IF cand = {} THEN -1
            ELSE SetMax({g \in cand : M.page_table[process_id][g].frequency = min_freq})
    IN  InvalidateVictim(M, process_id, victim_page)

evict_lfu(M, process_id) ==
    LET cand == ValidPages(M, process_id)
        min_freq == SetMin({M.page_table[process_id][g].frequency : g \in cand})
        victim_page ==
            IF cand = {} THEN -1
            ELSE SetMin({g \in cand : M.page_table[process_id][g].frequency = min_freq})
    IN  InvalidateVictim(M, process_id, victim_page)

\* A dispatch without the MRU branch, which falls through to LRU.
evict_page_NoMru(M, process_id) ==
    CASE M.algorithm = "LRU" -> evict_lru(M, process_id)
      [] M.algorithm = "FIFO" -> evict_fifo(M, process_id)
      [] M.algorithm = "LFU" -> evict_lfu(M, process_id)
      [] OTHER -> evict_lru(M, process_id)

evict_page(M, process_id) ==
    CASE M.algorithm = "LRU" -> evict_lru(M, process_id)
      [] M.algorithm = "MRU" -> evict_mru(M, process_id)
      [] M.algorithm = "FIFO" -> evict_fifo(M, process_id)
      [] M.algorithm = "LFU" -> evict_lfu(M, process_id)
      [] OTHER -> evict_lru(M, process_id)

\* A frame allocation whose quota test is strict: a process at its quota
\* still takes a frame from the pool.
AllocateFrame_StrictQuota(M, process_id) ==
    LET process == M.processes[process_id] IN
    IF Len(M.free_frames) = 0 \/ process.usecount > process.allocount
    THEN evict_page(M, process_id)
    ELSE LET a == allocate(M.free_frames) IN
         [frame |-> a.frame,
          mmu |-> [M EXCEPT !.free_frames = a.frames,
                            !.processes[process_id].usecount = @ + 1]]

\* A frame allocation that ignores the quota: it evicts only when the free
\* list is empty.
AllocateFrame_IgnoresQuota(M, process_id) ==
    IF Len(M.free_frames) = 0
    THEN evict_page(M, process_id)
    ELSE LET a == allocate(M.free_frames) IN
         [frame |-> a.frame,
          mmu |-> [M EXCEPT !.free_frames = a.frames,
                            !.processes[process_id].usecount = @ + 1]]

\* "Check if we need to evict a page": the process evicts one of its own pages
\* when the free list is empty or its quota is used up, and takes a free frame
\* otherwise.
AllocateFrame(M, process_id) ==
    LET process == M.processes[process_id] IN
    IF Len(M.free_frames) = 0 \/ process.usecount >= process.allocount
    THEN evict_page(M, process_id)
    ELSE LET a == allocate(M.free_frames) IN
         [frame |-> a.frame,
          mmu |-> [M EXCEPT !.free_frames = a.frames,
                            !.processes[process_id].usecount = @ + 1]]

\* The processes other than process_id that hold a valid mapping of the page.
Sharers(M, process_id, page_number) ==
    {o \in Range(M.k) : /\ o # process_id
                        /\ page_number < M.processes[o].m
                        /\ M.page_table[o][page_number].valid}

\* A fault handler that advances the clock.
handle_page_fault_Ticks(M, process_id, page_number) ==
    LET a == AllocateFrame([M EXCEPT !.timestamp = @ + 1], process_id)
        frame_number == a.frame
        M1 == [a.mmu EXCEPT
            !.page_table[process_id][page_number] =
                [frame |-> frame_number, valid |-> TRUE, time |-> M.timestamp + 1,
                 frequency |-> 1, read_only |-> FALSE, shared |-> FALSE],
            !.physical_memory[PyIndex(frame_number, M.f)] = process_id]
    IN  [frame |-> frame_number,
         mmu |-> update_tlb(M1, process_id, page_number, frame_number)]

\* A sharing installation that leaves the first holder's entry writable.
handle_page_fault_OtherStaysWritable(M, process_id, page_number) ==
    IF /\ M.enable_shared_memory
       /\ page_number \in M.shared_page_numbers
       /\ Sharers(M, process_id, page_number) # {}
    THEN LET other_pid == SetMin(Sharers(M, process_id, page_number))
             frame_number == M.page_table[other_pid][page_number].frame
             M1 == [M EXCEPT
                 !.page_table[process_id][page_number] =
                     [frame |-> frame_number, valid |-> TRUE, time |-> M.timestamp,
                      frequency |-> 1, read_only |-> TRUE, shared |-> TRUE]]
         IN  [frame |-> frame_number,
              mmu |-> update_tlb(M1, process_id, page_number, frame_number)]
    ELSE LET a == AllocateFrame(M, process_id)
             frame_number == a.frame
             M1 == [a.mmu EXCEPT
                 !.page_table[process_id][page_number] =
                     [frame |-> frame_number, valid |-> TRUE, time |-> M.timestamp,
                      frequency |-> 1, read_only |-> FALSE, shared |-> FALSE],
                 !.physical_memory[PyIndex(frame_number, M.f)] = process_id]
         IN  [frame |-> frame_number,
              mmu |-> update_tlb(M1, process_id, page_number, frame_number)]

\* A fault handler that takes a frame but forgets to mark the entry valid.
handle_page_fault_LeavesInvalid(M, process_id, page_number) ==
    LET a == AllocateFrame(M, process_id) IN
    [frame |-> a.frame,
     mmu |-> [a.mmu EXCEPT !.page_table[process_id][page_number].frame = a.frame]]

\* A sharing installation that charges the faulting process a frame of its
\* quota.
handle_page_fault_SharingUsesQuota(M, process_id, page_number) ==
    IF /\ M.enable_shared_memory
       /\ page_number \in M.shared_page_numbers
       /\ Sharers(M, process_id, page_number) # {}
    THEN LET other_pid == SetMin(Sharers(M, process_id, page_number))
             frame_number == M.page_table[other_pid][page_number].frame
             M1 == [M EXCEPT
                 !.page_table[process_id][page_number] =
                     [frame |-> frame_number, valid |-> TRUE, time |-> M.timestamp,
                      frequency |-> 1, read_only |-> TRUE, shared |-> TRUE],
                 !.page_table[other_pid][page_number].read_only = TRUE,
                 !.page_table[other_pid][page_number].shared = TRUE,
                 !.processes[process_id].usecount = @ + 1]
         IN  [frame |-> frame_number,
              mmu |-> update_tlb(M1, process_id, page_number, frame_number)]
    ELSE LET a == AllocateFrame(M, process_id)
             frame_number == a.frame
             M1 == [a.mmu EXCEPT
                 !.page_table[process_id][page_number] =
                     [frame |-> frame_number, valid |-> TRUE, time |-> M.timestamp,
                      frequency |-> 1, read_only |-> FALSE, shared |-> FALSE],
                 !.physical_memory[PyIndex(frame_number, M.f)] = process_id]
         IN  [frame |-> frame_number,
              mmu |-> update_tlb(M1, process_id, page_number, frame_number)]

handle_page_fault(M, process_id, page_number) ==
    IF /\ M.enable_shared_memory
       /\ page_number \in M.shared_page_numbers
       /\ Sharers(M, process_id, page_number) # {}
    THEN LET other_pid == SetMin(Sharers(M, process_id, page_number))
             frame_number == M.page_table[other_pid][page_number].frame
             M1 == [M EXCEPT
                 !.page_table[process_id][page_number] =
                     [frame |-> frame_number, valid |-> TRUE, time |-> M.timestamp,
                      frequency |-> 1, read_only |-> TRUE, shared |-> TRUE],
                 !.page_table[other_pid][page_number].read_only = TRUE,
                 !.page_table[other_pid][page_number].shared = TRUE]
         IN  [frame |-> frame_number,
              mmu |-> update_tlb(M1, process_id, page_number, frame_number)]
    ELSE LET a == AllocateFrame(M, process_id)
             frame_number == a.frame
             M1 == [a.mmu EXCEPT
                 !.page_table[process_id][page_number] =
                     [frame |-> frame_number, valid |-> TRUE, time |-> M.timestamp,
                      frequency |-> 1, read_only |-> FALSE, shared |-> FALSE],
                 !.physical_memory[PyIndex(frame_number, M.f)] = process_id]
         IN  [frame |-> frame_number,
              mmu |-> update_tlb(M1, process_id, page_number, frame_number)]

\* A copy-on-write that also gives the page back to the other sharers as a
\* private one: their entries lose the read-only and shared flags.
handle_protection_fault_ReleasesSharers(M, process_id, page_number) ==
    LET a == AllocateFrame(M, process_id)
        frame_number == a.frame
        M1 == [a.mmu EXCEPT
            !.page_table = [q \in DOMAIN @ |->
                IF q = process_id
                THEN [@[q] EXCEPT ![page_number] =
                        [frame |-> frame_number, valid |-> TRUE, time |-> M.timestamp,
                         frequency |-> @.frequency + 1, read_only |-> FALSE,
                         shared |-> FALSE]]
                ELSE [@[q] EXCEPT ![page_number].read_only = FALSE,
                                  ![page_number].shared = FALSE]],
            !.physical_memory[PyIndex(frame_number, M.f)] = process_id]
    IN  [frame |-> frame_number,
         mmu |-> update_tlb(M1, process_id, page_number, frame_number)]

\* A copy-on-write that leaves the TLB alone: an entry of the page keeps the
\* frame it had.
handle_protection_fault_StaleTlb(M, process_id, page_number) ==
    LET a == AllocateFrame(M, process_id)
        frame_number == a.frame
    IN  [frame |-> frame_number,
         mmu |-> [a.mmu EXCEPT
            !.page_table[process_id][page_number] =
                [frame |-> frame_number, valid |-> TRUE, time |-> M.timestamp,
                 frequency |-> @.frequency + 1, read_only |-> FALSE, shared |-> FALSE],
            !.physical_memory[PyIndex(frame_number, M.f)] = process_id]]

handle_protection_fault(M, process_id, page_number) ==
    LET a == AllocateFrame(M, process_id)
        frame_number == a.frame
        M1 == [a.mmu EXCEPT
            !.page_table[process_id][page_number] =
                [frame |-> frame_number, valid |-> TRUE, time |-> M.timestamp,
                 frequency |-> @.frequency + 1, read_only |-> FALSE, shared |-> FALSE],
            !.physical_memory[PyIndex(frame_number, M.f)] = process_id]
    IN  [frame |-> frame_number,
         mmu |-> update_tlb(M1, process_id, page_number, frame_number)]

\* A lookup that counts a TLB hit as a page hit as well.
handle_page_request_CountsBoth(M, process_id, page_number, access_type) ==
    LET M0 == [M EXCEPT !.timestamp = @ + 1]
        tlb_hit == check_tlb(M0, process_id, page_number).hit
    IN
    IF page_number < 0 \/ page_number >= M0.processes[process_id].m
    THEN [frame |-> -2, event |-> "invalid_reference", mmu |-> M0]
    ELSE LET pt_entry == M0.page_table[process_id][page_number] IN
    IF ~pt_entry.valid
    THEN [frame |-> -1, event |-> "page_fault",
          mmu |-> [M0 EXCEPT !.page_fault_counts[process_id] = @ + 1]]
    ELSE IF access_type = "WRITE" /\ pt_entry.read_only
    THEN [frame |-> -1, event |-> "protection_fault", mmu |-> M0]
    ELSE LET M1 == [M0 EXCEPT
                 !.page_hit_count = @ + 1,
                 !.page_table[process_id][page_number].time = M0.timestamp,
                 !.page_table[process_id][page_number].frequency = @ + 1]
         IN  IF tlb_hit
             THEN [frame |-> pt_entry.frame, event |-> "tlb_hit",
                   mmu |-> update_tlb_time([M1 EXCEPT !.tlb_hit_count = @ + 1],
                                           process_id, page_number)]
             ELSE [frame |-> pt_entry.frame, event |-> "page_hit",
                   mmu |-> update_tlb(M1, process_id, page_number, pt_entry.frame)]

\* A lookup that refreshes the entry before it looks at the access kind, so
\* that a protection fault leaves its mark in the page table.
handle_page_request_ProtectionRefreshes(M, process_id, page_number, access_type) ==
    LET M0 == [M EXCEPT !.timestamp = @ + 1]
        tlb_hit == check_tlb(M0, process_id, page_number).hit
    IN
    IF page_number < 0 \/ page_number >= M0.processes[process_id].m
    THEN [frame |-> -2, event |-> "invalid_reference", mmu |-> M0]
    ELSE LET pt_entry == M0.page_table[process_id][page_number] IN
    IF ~pt_entry.valid
    THEN [frame |-> -1, event |-> "page_fault",
          mmu |-> [M0 EXCEPT !.page_fault_counts[process_id] = @ + 1]]
    ELSE LET M1 == [M0 EXCEPT
                 !.page_table[process_id][page_number].time = M0.timestamp,
                 !.page_table[process_id][page_number].frequency = @ + 1]
         IN  IF access_type = "WRITE" /\ pt_entry.read_only
             THEN [frame |-> -1, event |-> "protection_fault", mmu |-> M1]
             ELSE IF tlb_hit
             THEN [frame |-> pt_entry.frame, event |-> "tlb_hit",
                   mmu |-> update_tlb_time([M1 EXCEPT !.tlb_hit_count = @ + 1],
                                           process_id, page_number)]
             ELSE [frame |-> pt_entry.frame, event |-> "page_hit",
                   mmu |-> update_tlb([M1 EXCEPT !.page_hit_count = @ + 1],
                                      process_id, page_number, pt_entry.frame)]

handle_page_request(M, process_id, page_number, access_type) ==
    LET M0 == [M EXCEPT !.timestamp = @ + 1]
        tlb_hit == check_tlb(M0, process_id, page_number).hit
    IN
    IF page_number < 0 \/ page_number >= M0.processes[process_id].m
    THEN [frame |-> -2, event |-> "invalid_reference", mmu |-> M0]
    ELSE LET pt_entry == M0.page_table[process_id][page_number] IN
    IF ~pt_entry.valid
    THEN [frame |-> -1, event |-> "page_fault",
          mmu |-> [M0 EXCEPT !.page_fault_counts[process_id] = @ + 1]]
    ELSE IF access_type = "WRITE" /\ pt_entry.read_only
    THEN [frame |-> -1, event |-> "protection_fault", mmu |-> M0]
    ELSE LET M1 == [M0 EXCEPT
                 !.page_table[process_id][page_number].time = M0.timestamp,
                 !.page_table[process_id][page_number].frequency = @ + 1]
         IN  IF tlb_hit
             THEN [frame |-> pt_entry.frame, event |-> "tlb_hit",
                   mmu |-> update_tlb_time([M1 EXCEPT !.tlb_hit_count = @ + 1],
                                           process_id, page_number)]
             ELSE [frame |-> pt_entry.frame, event |-> "page_hit",
                   mmu |-> update_tlb([M1 EXCEPT !.page_hit_count = @ + 1],
                                      process_id, page_number, pt_entry.frame)]

\* python/core MMU._evict_page: LRU, FIFO, LFU, and LRU for anything else.
py_evict_page(M, process_id) ==
    CASE M.algorithm = "LRU" -> evict_lru(M, process_id)
      [] M.algorithm = "FIFO" -> evict_fifo(M, process_id)
      [] M.algorithm = "LFU" -> evict_lfu(M, process_id)
      [] OTHER -> evict_lru(M, process_id)

\* python/core MMU.handle_page_fault: no sharing branch, and the entry's
\* read_only and shared fields are left alone.
py_handle_page_fault(M, process_id, page_number) ==
    LET process == M.processes[process_id]
        a == IF Len(M.free_frames) = 0 \/ process.usecount >= process.allocount
             THEN py_evict_page(M, process_id)
             ELSE LET t == allocate(M.free_frames) IN
                  [frame |-> t.frame,
                   mmu |-> [M EXCEPT !.free_frames = t.frames,
                                     !.processes[process_id].usecount = @ + 1]]
        frame_number == a.frame
        M1 == [a.mmu EXCEPT
            !.page_table[process_id][page_number].frame = frame_number,
            !.page_table[process_id][page_number].valid = TRUE,
            !.page_table[process_id][page_number].time = M.timestamp,
            !.page_table[process_id][page_number].frequency = 1,
            !.physical_memory[PyIndex(frame_number, M.f)] = process_id]
    IN  [frame |-> frame_number,
         mmu |-> update_tlb(M1, process_id, page_number, frame_number)]

\* python/core MMU.handle_page_fault raises: IndexError from
\* physical_memory[frame_number] when the frame number is no index of the
\* list, ValueError from min() in _update_tlb when the TLB has no slot at all.
py_handle_page_fault_raises(M, process_id, page_number) ==
    LET process == M.processes[process_id]
        frame_number ==
            IF Len(M.free_frames) = 0 \/ process.usecount >= process.allocount
            THEN py_evict_page(M, process_id).frame
            ELSE allocate(M.free_frames).frame
    IN  \/ PyIndex(frame_number, M.f) \notin Range(M.f)
        \/ M.s = 0

\* The MMU such a call leaves behind: the assignments made before the raise.
py_handle_page_fault_raised(M, process_id, page_number) ==
    LET process == M.processes[process_id]
        a == IF Len(M.free_frames) = 0 \/ process.usecount >= process.allocount
             THEN py_evict_page(M, process_id)
             ELSE LET t == allocate(M.free_frames) IN
                  [frame |-> t.frame,
                   mmu |-> [M EXCEPT !.free_frames = t.frames,
                                     !.processes[process_id].usecount = @ + 1]]
        M1 == [a.mmu EXCEPT
            !.page_table[process_id][page_number].frame = a.frame,
            !.page_table[process_id][page_number].valid = TRUE,
            !.page_table[process_id][page_number].time = M.timestamp,
            !.page_table[process_id][page_number].frequency = 1]
    IN  IF PyIndex(a.frame, M.f) \in Range(M.f)
        THEN [M1 EXCEPT !.physical_memory[PyIndex(a.frame, M.f)] = process_id]
        ELSE M1

\* A lookup that counts an invalid reference as a page fault of the process.
py_handle_page_request_CountsInvalid(M, process_id, page_number) ==
    LET M0 == [M EXCEPT !.timestamp = @ + 1]
        t == check_tlb(M0, process_id, page_number)
    IN
    IF page_number < 0 \/ page_number >= M0.processes[process_id].m
    THEN [frame |-> -2, event |-> "invalid_reference",
          mmu |-> [M0 EXCEPT !.page_fault_counts[process_id] = @ + 1]]
    ELSE IF t.hit
    THEN [frame |-> t.frame, event |-> "tlb_hit",
          mmu |-> update_tlb_time([M0 EXCEPT !.tlb_hit_count = @ + 1],
                                  process_id, page_number)]
    ELSE LET pt_entry == M0.page_table[process_id][page_number] IN
    IF pt_entry.valid
    THEN LET M1 == [M0 EXCEPT
                 !.page_hit_count = @ + 1,
                 !.page_table[process_id][page_number].time = M0.timestamp,
                 !.page_table[process_id][page_number].frequency = @ + 1]
         IN  [frame |-> pt_entry.frame, event |-> "page_hit",
              mmu |-> update_tlb(M1, process_id, page_number, pt_entry.frame)]
    ELSE [frame |-> -1, event |-> "page_fault",
          mmu |-> [M0 EXCEPT !.page_fault_counts[process_id] = @ + 1]]

\* python/core MMU.handle_page_request: the TLB is consulted first and a TLB
\* hit returns at once, with the frame the TLB holds.
py_handle_page_request(M, process_id, page_number) ==
    LET M0 == [M EXCEPT !.timestamp = @ + 1]
        t == check_tlb(M0, process_id, page_number)
    IN
    IF page_number < 0 \/ page_number >= M0.processes[process_id].m
    THEN [frame |-> -2, event |-> "invalid_reference", mmu |-> M0]
    ELSE IF t.hit
    THEN [frame |-> t.frame, event |-> "tlb_hit",
          mmu |-> update_tlb_time([M0 EXCEPT !.tlb_hit_count = @ + 1],
                                  process_id, page_number)]
    ELSE LET pt_entry == M0.page_table[process_id][page_number] IN
    IF pt_entry.valid
    THEN LET M1 == [M0 EXCEPT
                 !.page_hit_count = @ + 1,
                 !.page_table[process_id][page_number].time = M0.timestamp,
                 !.page_table[process_id][page_number].frequency = @ + 1]
         IN  [frame |-> pt_entry.frame, event |-> "page_hit",
              mmu |-> update_tlb(M1, process_id, page_number, pt_entry.frame)]
    ELSE [frame |-> -1, event |-> "page_fault",
          mmu |-> [M0 EXCEPT !.page_fault_counts[process_id] = @ + 1]]

\* The call self.mmu.handle_page_request(...) of an orchestrator: the method
\* of the class its MMU is an instance of.
ResolveReference(M, process_id, page_number, access_type) ==
    IF M.core = "python"
    THEN py_handle_page_request(M, process_id, page_number)
    ELSE handle_page_request(M, process_id, page_number, access_type)

\* The call self.mmu.handle_page_fault(...) of an orchestrator.
ServicePageFault(M, process_id, page_number) ==
    IF M.core = "python"
    THEN py_handle_page_fault(M, process_id, page_number)
    ELSE handle_page_fault(M, process_id, page_number)

\* free_process_frames walks the pages in order; FreeLoop is that walk from
\* page g on.
RECURSIVE FreeLoop(_, _, _)
FreeLoop(M, process_id, g) ==
    IF g >= M.processes[process_id].m THEN M
    ELSE LET pt_entry == M.page_table[process_id][g] IN
         IF pt_entry.valid
         THEN FreeLoop([M EXCEPT
                  !.free_frames = deallocate(@, pt_entry.frame),
                  !.physical_memory[PyIndex(pt_entry.frame, M.f)] = -1,
                  !.page_table[process_id][g].valid = FALSE],
                  process_id, g + 1)
         ELSE FreeLoop(M, process_id, g + 1)

free_process_frames(M, process_id) ==
    LET M1 == FreeLoop(M, process_id, 0) IN
    [M1 EXCEPT
        !.tlb = [i \in Range(M.s) |->
                    IF M1.tlb[i].valid /\ M1.tlb[i].pid = process_id
                    THEN [M1.tlb[i] EXCEPT !.valid = FALSE]
                    ELSE M1.tlb[i]],
        !.processes[process_id].usecount = 0]

(***************************************************************************)
(* Process creation with explicit reference strings.                       *)
(***************************************************************************)
\* Reference strings of length 1..n over the pages 0..MaxPages-1.
RefStrings(n) == UNION {[1 .. l -> Range(MaxPages)] : l \in 1 .. n}

SeqMax(refs) == SetMax({refs[i] : i \in 1 .. Len(refs)})

\* The ways the leftover frames can be handed out by random.choice: every
\* vector of extras that sums to the number of leftover frames.
Extras(k, remaining) ==
    IF remaining <= 0 THEN {[p \in Range(k) |-> 0]}
    ELSE {e \in [Range(k) -> 0 .. remaining] : SumOver(e, Range(k)) = remaining}

\* ProcessManager.create_processes_with_references raises: ValueError for a
\* wrong number of strings, an empty string or a page number above the
\* maximum, ZeroDivisionError when the page counts add up to zero.  A list of
\* n strings is a function on 0..n-1.
create_processes_with_references_raises(num_processes, max_pages, num_frames, reference_strings) ==
    \/ Cardinality(DOMAIN reference_strings) # num_processes
    \/ \E p \in Range(num_processes) :
          \/ Len(reference_strings[p]) = 0
          \/ SeqMax(reference_strings[p]) + 1 > max_pages
    \/ /\ num_processes >= 1
       /\ SumOver([p \in Range(num_processes) |-> SeqMax(reference_strings[p]) + 1],
                  Range(num_processes)) = 0

\* ProcessManager.create_processes raises: ValueError from randint(1, max_pages)
\* when there is a process and no page to give it, IndexError from
\* random.choice of an empty process list when frames are left over.
create_processes_raises(num_processes, max_pages, num_frames) ==
    \/ num_processes >= 1 /\ max_pages < 1
    \/ num_processes < 1 /\ num_frames > 0

\* ProcessManager.create_processes when there is no process to create: the
\* empty list.  With processes it draws their page counts and reference
\* strings at random, 2 to 10 times the page count long; those runs are
\* explored through explicit strings.
create_processes(num_processes, max_pages, num_frames) ==
    {[p \in Range(num_processes) |-> Process(p, 0, <<>>)]}

\* ProcessManager.create_processes_with_references, for reference strings
\* that pass its checks: the set of process lists it can return.
create_processes_with_references(num_processes, max_pages, num_frames, reference_strings) ==
    LET num_pages == [p \in Range(num_processes) |-> SeqMax(reference_strings[p]) + 1]
        total_pages == SumOver(num_pages, Range(num_processes))
        allocation == [p \in Range(num_processes) |->
            1 + TruncDiv(num_pages[p] * (num_frames - num_processes), total_pages)]
        remaining == num_frames - SumOver(allocation, Range(num_processes))
    IN  {[p \in Range(num_processes) |->
            [Process(p, num_pages[p], reference_strings[p])
                EXCEPT !.allocount = allocation[p] + e[p]]]
         : e \in Extras(num_processes, remaining)}

\* The configurations within the bounds: every process count, frame count, TLB
\* size and policy, with explicit reference strings of at most MaxRefs \div k
\* references for each of the k processes.  The sharing flag is varied only
\* when there is a second process to share with.
BackendConfigs ==
    UNION {
      {[core |-> "backend",
        num_processes |-> k, max_pages_per_process |-> MaxPages,
        num_frames |-> f, tlb_size |-> s, algorithm |-> a,
        auto_generate_references |-> FALSE, reference_strings |-> r,
        enable_shared_memory |-> sh]
       : f \in k .. MaxFrames, s \in 1 .. MaxTlb, a \in Algorithms,
         sh \in (IF k = 1 THEN {FALSE} ELSE BOOLEAN),
         r \in [Range(k) -> RefStrings(MaxRefs \div k)]}
      : k \in 1 .. MaxProcs}

\* The policies of python/core's PageReplacementAlgorithm.
PyAlgorithms == {"LRU", "FIFO", "LFU"}

\* The same for the python/core classes, which know neither MRU nor sharing.
PythonConfigs ==
    UNION {
      {[core |-> "python",
        num_processes |-> k, max_pages_per_process |-> MaxPages,
        num_frames |-> f, tlb_size |-> s, algorithm |-> a,
        auto_generate_references |-> FALSE, reference_strings |-> r,
        enable_shared_memory |-> FALSE]
       : f \in k .. MaxFrames, s \in 1 .. MaxTlb, a \in PyAlgorithms,
         r \in [Range(k) -> RefStrings(MaxRefs \div k)]}
      : k \in 1 .. MaxProcs}

BoundedConfigs == BackendConfigs \cup PythonConfigs

\* Scenario A: one process, three pages, two frames, a TLB of one entry, FIFO.
ScenarioA ==
    [core |-> "python",
     num_processes |-> 1, max_pages_per_process |-> 3, num_frames |-> 2,
     tlb_size |-> 1, algorithm |-> "FIFO", auto_generate_references |-> FALSE,
     reference_strings |-> [p \in {0} |-> <<0, 1, 2, 0, 1>>],
     enable_shared_memory |-> FALSE]

\* Runs of one process with three pages and four references: the smallest in
\* which an eviction has two pages to choose from and the TLB is smaller than
\* the set of resident pages.
PolicyScenarios ==
    {[core |-> c[1],
      num_processes |-> 1, max_pages_per_process |-> 3,
      num_frames |-> f, tlb_size |-> s, algorithm |-> c[2],
      auto_generate_references |-> FALSE,
      reference_strings |-> [p \in {0} |-> r],
      enable_shared_memory |-> FALSE]
     : c \in ({"backend"} \X Algorithms) \cup ({"python"} \X PyAlgorithms),
       f \in {2, 3}, s \in {1, 2}, r \in [1 .. 4 -> 0 .. 2]}

\* Runs of three processes of one page with a frame each and one or two
\* references: the smallest in which a process has two others to wait for.
RoundRobinScenarios ==
    {[core |-> "python",
      num_processes |-> 3, max_pages_per_process |-> 1, num_frames |-> 3,
      tlb_size |-> 1, algorithm |-> "LRU", auto_generate_references |-> FALSE,
      reference_strings |-> r, enable_shared_memory |-> FALSE]
     : r \in [0 .. 2 -> {<<0>>, <<0, 0>>}]}

\* The configurations explored.
Configs == BoundedConfigs \cup {ScenarioA} \cup PolicyScenarios \cup RoundRobinScenarios

NoConfig == [num_processes |-> 0]

NoMMU == MMU(0, 0, 0, 0, "LRU", FALSE)

(***************************************************************************)
(* Scheduler.                                                              *)
(***************************************************************************)
\* A scheduler that never puts a process back.
return_to_ready_queue_Dropped(queue, processes, process_id) == queue

\* A scheduler that puts a process back at the head of the queue.
return_to_ready_queue_AtHead(queue, processes, process_id) ==
    IF ~processes[process_id].completed THEN <<process_id>> \o queue ELSE queue

\* A scheduler that puts a process back twice.
return_to_ready_queue_Twice(queue, processes, process_id) ==
    IF ~processes[process_id].completed
    THEN Append(Append(queue, process_id), process_id)
    ELSE queue

\* Scheduler.return_to_ready_queue
return_to_ready_queue(queue, processes, process_id) ==
    IF ~processes[process_id].completed THEN Append(queue, process_id) ELSE queue

\* Scheduler.is_simulation_complete
is_simulation_complete == completed_count >= Cardinality(DOMAIN mmu.processes)

(***************************************************************************)
(* Orchestrator.                                                           *)
(***************************************************************************)
\* MMU.get_state_snapshot: copies of the physical memory map and of the free
\* list, the frame of every valid entry of each process's page table, and the
\* valid TLB entries in the order of their slots.
get_state_snapshot(M) ==
    LET valid(entry) == entry.valid
        slots == [i \in 1 .. M.s |-> M.tlb[i - 1]]
        shown == SelectSeq(slots, valid)
    IN  [physical_memory |-> M.physical_memory,
         page_tables |->
            [p \in Range(M.k) |->
                [g \in {h \in Range(M.processes[p].m) : M.page_table[p][h].valid}
                    |-> M.page_table[p][g].frame]],
         tlb_state |->
            [i \in 1 .. Len(shown) |->
                [pid |-> shown[i].pid, page |-> shown[i].pageno,
                 frame |-> shown[i].frameno, time |-> shown[i].time]],
         free_frames |-> M.free_frames,
         timestamp |-> M.timestamp]

\* A step record that takes the length of the reference string's prefix for
\* the clock: the cursor of the process instead of the MMU's timestamp.
create_step_CursorAsClock(M, process_id, page_number, frame_number, event_type) ==
    LET record(m) ==
            LET state == get_state_snapshot(m) IN
            [timestamp |-> m.processes[process_id].current_index + 1, process_id |-> process_id,
             page_number |-> page_number, event |-> event_type,
             frame_number |-> frame_number,
             physical_memory |-> state.physical_memory,
             page_tables |-> state.page_tables,
             tlb_state |-> state.tlb_state,
             free_frames |-> state.free_frames,
             page_fault_count |-> SumOver(m.page_fault_counts, DOMAIN m.page_fault_counts),
             tlb_hit_count |-> m.tlb_hit_count,
             page_hit_count |-> m.page_hit_count]
    IN  CHOOSE step \in {record(m) : m \in {M}} : TRUE

\* _create_step: the trace record of an event, with the snapshot and the
\* counters of the MMU M at that moment.
\* The record is built from the one value of M: the method reads the MMU
\* object it is handed, once.
create_step(M, process_id, page_number, frame_number, event_type) ==
    LET record(m) ==
            LET state == get_state_snapshot(m) IN
            [timestamp |-> m.timestamp, process_id |-> process_id,
             page_number |-> page_number, event |-> event_type,
             frame_number |-> frame_number,
             physical_memory |-> state.physical_memory,
             page_tables |-> state.page_tables,
             tlb_state |-> state.tlb_state,
             free_frames |-> state.free_frames,
             page_fault_count |-> SumOver(m.page_fault_counts, DOMAIN m.page_fault_counts),
             tlb_hit_count |-> m.tlb_hit_count,
             page_hit_count |-> m.page_hit_count]
    IN  CHOOSE step \in {record(m) : m \in {M}} : TRUE

\* How a call ended: configure returns or raises, run_simulation returns a
\* result with success set or not.
NoResult == [call |-> "none", outcome |-> "none"]

Returned(call) == [call |-> call, outcome |-> "ok"]

Failed(call) == [call |-> call, outcome |-> "failed"]

Init ==
    /\ config = NoConfig
    /\ mmu = NoMMU
    /\ ready_queue = <<>>
    /\ current_process = -1
    /\ completed_count = 0
    /\ steps = <<>>
    /\ is_running = FALSE
    /\ pc = "idle"
    /\ access = <<>>
    /\ result = NoResult

\* configure raises: from its own check of the reference strings (None or an
\* empty list) or from the creation of the processes.
configure_raises(c) ==
    IF c.auto_generate_references
    THEN create_processes_raises(c.num_processes, c.max_pages_per_process, c.num_frames)
    ELSE \/ Cardinality(DOMAIN c.reference_strings) = 0
         \/ create_processes_with_references_raises(
                c.num_processes, c.max_pages_per_process, c.num_frames,
                c.reference_strings)

\* configure(c): the configuration is stored first; when the creation of the
\* processes raises, every other field keeps the value it had.
configure(c) ==
    /\ config' = c
    /\ IF configure_raises(c)
       THEN /\ result' = Failed("configure")
            /\ UNCHANGED <<mmu, ready_queue, current_process, completed_count,
                           steps, is_running, access>>
       ELSE /\ \E processes \in
                 (IF c.auto_generate_references
                  THEN create_processes(c.num_processes, c.max_pages_per_process,
                                        c.num_frames)
                  ELSE create_processes_with_references(
                          c.num_processes, c.max_pages_per_process, c.num_frames,
                          c.reference_strings)) :
               /\ mmu' = set_processes(
                     IF c.core = "python"
                     THEN PyMMU(c.num_processes, c.max_pages_per_process, c.num_frames,
                                c.tlb_size, c.algorithm)
                     ELSE MMU(c.num_processes, c.max_pages_per_process, c.num_frames,
                              c.tlb_size, c.algorithm, c.enable_shared_memory),
                     processes)
               /\ ready_queue' = [i \in 1 .. c.num_processes |-> i - 1]
               /\ access' = [p \in Range(c.num_processes) |-> "NONE"]
            /\ current_process' = -1
            /\ completed_count' = 0
            /\ steps' = <<>>
            /\ is_running' = FALSE
            /\ result' = Returned("configure")
    /\ pc' = "idle"

\* configure(config) with a configuration of the set C, called on an
\* orchestrator that holds no configuration.
ConfigureFrom(C) ==
    /\ pc = "idle"
    /\ config = NoConfig
    /\ \E c \in C : configure(c)

Configure == ConfigureFrom(Configs)

\* run_simulation up to the main loop.  Without a configuration it returns a
\* failure at once; with a configuration and no scheduler (the only configure
\* so far raised) the loop's first test raises AttributeError, which the
\* handler turns into a failure.
RunSimulation ==
    /\ pc = "idle"
    /\ IF config = NoConfig
       THEN /\ result' = Failed("run_simulation")
            /\ UNCHANGED <<is_running, steps, pc>>
       ELSE IF mmu = NoMMU
       THEN /\ result' = Failed("run_simulation")
            /\ is_running' = FALSE
            /\ steps' = <<>>
            /\ pc' = "idle"
       ELSE /\ is_running' = TRUE
            /\ steps' = <<>>
            /\ pc' = "loop"
            /\ UNCHANGED result
    /\ UNCHANGED <<config, mmu, ready_queue, current_process, completed_count, access>>

\* _handle_process_completion on the MMU M: free the frames, mark the process
\* complete.
CompletedMMU(M, process_id) ==
    [free_process_frames(M, process_id) EXCEPT !.processes[process_id].completed = TRUE]

\* The access kinds a reference can be resolved with.  With sharing disabled no
\* entry is ever read-only and the two kinds behave alike.
AccessChoices(process_id) ==
    IF access[process_id] # "NONE" THEN {access[process_id]}
    ELSE IF mmu.enable_shared_memory THEN AccessKinds
    ELSE {"READ"}

\* One iteration of the main loop, up to the handling of a fault.
Dispatch ==
    /\ pc = "loop"
    /\ ~is_simulation_complete
    /\ ready_queue # <<>>
    /\ LET process_id == Head(ready_queue)
           queue == Tail(ready_queue)
           process == mmu.processes[process_id]
       IN
       /\ current_process' = process_id
       /\ IF process.current_index >= Len(process.reference_string)
          THEN LET M == CompletedMMU(mmu, process_id) IN
               /\ mmu' = M
               /\ completed_count' = completed_count + 1
               /\ steps' = Append(steps, create_step(M, process_id, -1, -1, "process_complete"))
               /\ ready_queue' = queue
               /\ pc' = "loop"
               /\ access' = access
          ELSE
          \E access_type \in AccessChoices(process_id) :
          LET page_number == process.reference_string[process.current_index + 1]
              r == ResolveReference(mmu, process_id, page_number, access_type)
              step == create_step(r.mmu, process_id, page_number, r.frame, r.event)
          IN
          CASE r.event = "invalid_reference" ->
                 LET M == CompletedMMU(r.mmu, process_id) IN
                 /\ mmu' = M
                 /\ completed_count' = completed_count + 1
                 /\ steps' = steps \o <<step, create_step(M, process_id, -1, -1, "process_complete")>>
                 /\ ready_queue' = queue
                 /\ pc' = "loop"
                 /\ access' = [access EXCEPT ![process_id] = "NONE"]
            [] r.event \in {"page_fault", "protection_fault"} ->
                 /\ mmu' = r.mmu
                 /\ steps' = Append(steps, step)
                 /\ ready_queue' = queue
                 /\ pc' = r.event
                 /\ access' = [access EXCEPT ![process_id] = access_type]
                 /\ UNCHANGED completed_count
            [] r.event \in {"tlb_hit", "page_hit"} ->
                 LET M1 == [r.mmu EXCEPT !.processes[process_id].current_index = @ + 1]
                     more == M1.processes[process_id].current_index
                                < Len(process.reference_string)
                     M == IF more THEN M1 ELSE CompletedMMU(M1, process_id)
                 IN
                 /\ mmu' = M
                 /\ access' = [access EXCEPT ![process_id] = "NONE"]
                 /\ pc' = "loop"
                 /\ IF more
                    THEN /\ ready_queue' = return_to_ready_queue(queue, M.processes, process_id)
                         /\ steps' = Append(steps, step)
                         /\ UNCHANGED completed_count
                    ELSE /\ ready_queue' = queue
                         /\ completed_count' = completed_count + 1
                         /\ steps' = steps \o <<step, create_step(M, process_id, -1, -1, "process_complete")>>
    /\ UNCHANGED <<config, is_running, result>>

\* The page of the reference the current process is at.
CurrentPage ==
    LET process == mmu.processes[current_process] IN
    process.reference_string[process.current_index + 1]

\* The page-fault branch of the loop: handle_page_fault, the "handled" step,
\* and the process goes back to the ready queue with its cursor unchanged.
\* When handle_page_fault raises, run_simulation's handler ends the run with a
\* failure.
HandlePageFault ==
    /\ pc = "page_fault"
    /\ IF /\ mmu.core = "python"
          /\ py_handle_page_fault_raises(mmu, current_process, CurrentPage)
       THEN /\ mmu' = py_handle_page_fault_raised(mmu, current_process, CurrentPage)
            /\ is_running' = FALSE
            /\ result' = Failed("run_simulation")
            /\ pc' = "idle"
            /\ UNCHANGED <<steps, ready_queue>>
       ELSE LET r == ServicePageFault(mmu, current_process, CurrentPage) IN
            /\ mmu' = r.mmu
            /\ steps' = Append(steps, create_step(r.mmu, current_process, CurrentPage,
                                                  r.frame, "page_fault_handled"))
            /\ ready_queue' = return_to_ready_queue(ready_queue, r.mmu.processes, current_process)
            /\ pc' = "loop"
            /\ UNCHANGED <<is_running, result>>
    /\ UNCHANGED <<config, current_process, completed_count, access>>

\* The protection-fault branch of the loop: the same retry shape through
\* handle_protection_fault.
HandleProtectionFault ==
    /\ pc = "protection_fault"
    /\ LET r == handle_protection_fault(mmu, current_process, CurrentPage) IN
       /\ mmu' = r.mmu
       /\ steps' = Append(steps, create_step(r.mmu, current_process, CurrentPage,
                                             r.frame, "protection_fault_handled"))
       /\ ready_queue' = return_to_ready_queue(ready_queue, r.mmu.processes, current_process)
    /\ pc' = "loop"
    /\ UNCHANGED <<config, current_process, completed_count, is_running, access, result>>

\* The loop ends: the scheduler reports every process complete, or the ready
\* queue is empty.
Finish ==
    /\ pc = "loop"
    /\ ~(~is_simulation_complete /\ ready_queue # <<>>)
    /\ is_running' = FALSE
    /\ result' = Returned("run_simulation")
    /\ pc' = "idle"
    /\ UNCHANGED <<config, mmu, ready_queue, current_process, completed_count, steps, access>>

\* reset()
Reset ==
    /\ pc = "idle"
    /\ config # NoConfig
    /\ config' = NoConfig
    /\ mmu' = NoMMU
    /\ ready_queue' = <<>>
    /\ current_process' = -1
    /\ completed_count' = 0
    /\ steps' = <<>>
    /\ is_running' = FALSE
    /\ access' = <<>>
    /\ result' = NoResult
    /\ pc' = "idle"

Next ==
    \/ Configure
    \/ RunSimulation
    \/ Dispatch
    \/ HandlePageFault
    \/ HandleProtectionFault
    \/ Finish
    \/ Reset

Spec == Init /\ [][Next]_vars

(***************************************************************************)
(* Notions the properties are stated with.                                 *)
(***************************************************************************)
Procs == Range(mmu.k)

Frames == Range(mmu.f)

\* The frames in the free pool.
FreeSet == {mmu.free_frames[i] : i \in 1 .. Len(mmu.free_frames)}

\* The valid page table entries, as (process, page) pairs.
ValidEntries ==
    {e \in Procs \X Range(mmu.m) : mmu.page_table[e[1]][e[2]].valid}

\* The valid entries that reference frame fr.
Holders(fr) == {e \in ValidEntries : mmu.page_table[e[1]][e[2]].frame = fr}

\* The sum of the processes' usage counters.
FramesInUse == SumOver([p \in Procs |-> mmu.processes[p].usecount], Procs)

\* Both processes hold a valid shared mapping of the same frame.
SharedMapping(p, q, g) ==
    /\ p # q
    /\ mmu.page_table[p][g].valid /\ mmu.page_table[q][g].valid
    /\ mmu.page_table[p][g].frame = mmu.page_table[q][g].frame
    /\ mmu.page_table[p][g].shared /\ mmu.page_table[q][g].shared

(***************************************************************************)
(* C1.  After every MMU operation the size of the free pool plus the sum   *)
(* of the processes' usage counters equals the total frame count, a shared *)
(* frame being counted once; also after a process that holds a shared      *)
(* mapping completes.                                                      *)
(***************************************************************************)
C1_FrameConservation ==
    Len(mmu.free_frames) + FramesInUse = mmu.f

(***************************************************************************)
(* C2.  Each frame is in exactly one of two places: the free pool, or      *)
(* assigned to a process (referenced by a valid page table entry and owned *)
(* in the physical memory map); no free frame is referenced by a valid     *)
(* entry.                                                                  *)
(***************************************************************************)
C2_FreeXorAssigned ==
    \A fr \in Frames :
        (fr \in FreeSet) # (Holders(fr) # {} /\ mmu.physical_memory[fr] # -1)

(***************************************************************************)
(* C3.  The frame of every valid entry of process p is recorded in the     *)
(* physical memory map under p, or under the original owner when the entry *)
(* is shared; a frame the map records as unowned is referenced by no valid *)
(* entry.                                                                  *)
(***************************************************************************)
C3_PhysicalMapConsistent ==
    /\ \A e \in ValidEntries :
          LET entry == mmu.page_table[e[1]][e[2]] IN
          /\ entry.frame \in Frames
          /\ \/ mmu.physical_memory[entry.frame] = e[1]
             \/ /\ entry.shared
                /\ \E q \in Procs : /\ SharedMapping(e[1], q, e[2])
                                    /\ mmu.physical_memory[entry.frame] = q
    /\ \A fr \in Frames : mmu.physical_memory[fr] = -1 => Holders(fr) = {}

(***************************************************************************)
(* C4.  Every valid TLB entry (p, page) has a valid page table entry for   *)
(* (p, page): an eviction and free_process_frames leave no valid TLB entry *)
(* for the pages they invalidate.                                          *)
(***************************************************************************)
C4_TlbBackedByPageTable ==
    \A i \in Range(mmu.s) :
        mmu.tlb[i].valid =>
            /\ mmu.tlb[i].pid \in Procs
            /\ mmu.tlb[i].pageno \in Range(mmu.m)
            /\ mmu.page_table[mmu.tlb[i].pid][mmu.tlb[i].pageno].valid

(***************************************************************************)
(* C5.  free_process_frames(p) returns every frame of p's valid entries to *)
(* the free pool, clears their physical memory mapping, invalidates p's    *)
(* entries and TLB entries and resets p's usage counter; a second call     *)
(* changes nothing; and no frame is ever present twice in the free pool.   *)
(***************************************************************************)
FreedCorrectly(M, p) ==
    LET M1 == free_process_frames(M, p)
        freed == {M.page_table[p][g].frame : g \in ValidPages(M, p)}
    IN  /\ \A fr \in freed :
              /\ \E i \in 1 .. Len(M1.free_frames) : M1.free_frames[i] = fr
              /\ M1.physical_memory[PyIndex(fr, M.f)] = -1
        /\ \A g \in Range(M.m) : ~M1.page_table[p][g].valid
        /\ \A i \in Range(M.s) : ~(M1.tlb[i].valid /\ M1.tlb[i].pid = p)
        /\ M1.processes[p].usecount = 0
        /\ free_process_frames(M1, p) = M1

NoFrameTwiceFree ==
    \A i, j \in 1 .. Len(mmu.free_frames) :
        mmu.free_frames[i] = mmu.free_frames[j] => i = j

C5_FreeIdempotentNoDoubleFree ==
    /\ \A p \in Procs : FreedCorrectly(mmu, p)
    /\ NoFrameTwiceFree

(***************************************************************************)
(* C6.  The main loop terminates: a run that has started ends with every   *)
(* process marked complete, and the loop never finds the ready queue empty *)
(* while a process is still incomplete.                                    *)
(***************************************************************************)
AllComplete == \A p \in Procs : mmu.processes[p].completed

C6_Termination ==
    /\ [](pc = "loop" /\ ready_queue = <<>> => is_simulation_complete /\ AllComplete)
    /\ (is_running ~> (~is_running /\ is_simulation_complete /\ AllComplete))

\* The configurations the liveness property is checked on: the policy and
\* the TLB size, which no branch of the loop depends on, are fixed.
LiveConfigs ==
    {c \in BoundedConfigs \cup {ScenarioA} :
        c.tlb_size = 1 /\ c.algorithm \in {"LRU", "FIFO"}}

ConfigureLive == ConfigureFrom(LiveConfigs)

LiveNext ==
    \/ ConfigureLive
    \/ RunSimulation
    \/ Dispatch
    \/ HandlePageFault
    \/ HandleProtectionFault
    \/ Finish
    \/ Reset

\* The loop runs to its end once run_simulation has been called: it is
\* sequential code and none of its steps waits for anything.
FairSpec ==
    /\ Init /\ [][LiveNext]_vars
    /\ WF_vars(Dispatch)
    /\ WF_vars(HandlePageFault)
    /\ WF_vars(HandleProtectionFault)
    /\ WF_vars(Finish)

(***************************************************************************)
(* C7.  After a page fault of process p the orchestrator calls             *)
(* handle_page_fault, leaves p's cursor where it is and re-enqueues p; the *)
(* next reference resolved for p is the same page and is a hit.            *)
(***************************************************************************)
Cursors == [p \in Procs |-> mmu.processes[p].current_index]

\* The step of process p that follows step i in the trace, 0 if none.
NextStepOf(i) ==
    LET later == {j \in (i + 1) .. Len(steps) : steps[j].process_id = steps[i].process_id}
    IN  IF later = {} THEN 0 ELSE SetMin(later)

RetryShape ==
    [][pc = "page_fault" =>
          /\ pc' = "loop"
          /\ Cursors' = Cursors
          /\ ready_queue' = Append(ready_queue, current_process)
          /\ mmu'.page_table[current_process][CurrentPage].valid]_vars

RetryOutcomeIn(events) ==
    \A i \in 1 .. Len(steps) :
        steps[i].event = "page_fault_handled" /\ NextStepOf(i) # 0 =>
            /\ steps[NextStepOf(i)].page_number = steps[i].page_number
            /\ steps[NextStepOf(i)].event \in events

C7_RetryIsHit ==
    RetryShape /\ []RetryOutcomeIn({"tlb_hit", "page_hit"})

\* C7 as amended: the retried reference is a hit, or a protection fault when
\* the page is a shareable page of a run with sharing enabled.
RetryOutcomeAmended ==
    \A i \in 1 .. Len(steps) :
        steps[i].event = "page_fault_handled" /\ NextStepOf(i) # 0 =>
            /\ steps[NextStepOf(i)].page_number = steps[i].page_number
            /\ \/ steps[NextStepOf(i)].event \in {"tlb_hit", "page_hit"}
               \/ /\ steps[NextStepOf(i)].event = "protection_fault"
                  /\ mmu.enable_shared_memory
                  /\ steps[i].page_number \in mmu.shared_page_numbers

C7_RetryIsHitOrProtectionFault ==
    RetryShape /\ []RetryOutcomeAmended

(***************************************************************************)
(* C8.  For every process the usage counter never exceeds the frame quota, *)
(* free frames or not, and the cursor stays within the reference string.   *)
(***************************************************************************)
C8_QuotaAndCursor ==
    \A p \in Procs :
        LET process == mmu.processes[p] IN
        /\ process.usecount <= process.allocount
        /\ 0 <= process.current_index
        /\ process.current_index <= Len(process.reference_string)

(***************************************************************************)
(* C9.  A fault serviced for process p by allocation or eviction changes   *)
(* no page table entry of another process and takes no frame that another  *)
(* process holds; when p is at its quota the new page goes into the frame  *)
(* of one of p's own pages, and the free pool, the usage counters and the  *)
(* other processes' mappings are unchanged.                                *)
(***************************************************************************)
\* The fault about to be serviced goes through the sharing installation.
SharingInstall ==
    /\ pc = "page_fault"
    /\ mmu.enable_shared_memory
    /\ CurrentPage \in mmu.shared_page_numbers
    /\ Sharers(mmu, current_process, CurrentPage) # {}

HeldByOther(fr, p) == \E e \in Holders(fr) : e[1] # p

UseCounts == [p \in Procs |-> mmu.processes[p].usecount]

AtQuota(p) == mmu.processes[p].usecount >= mmu.processes[p].allocount

\* What one step that services a fault by allocation or eviction must keep.
FaultServiceIsolated ==
    pc \in {"page_fault", "protection_fault"} /\ ~SharingInstall =>
        LET p == current_process
            fr == mmu'.page_table[p][CurrentPage].frame
        IN  /\ \A o \in Procs \ {p} : mmu'.page_table[o] = mmu.page_table[o]
            /\ ~HeldByOther(fr, p)
            /\ AtQuota(p) =>
                  /\ \E g \in ValidPages(mmu, p) : mmu.page_table[p][g].frame = fr
                  /\ mmu'.free_frames = mmu.free_frames
                  /\ UseCounts' = UseCounts

C9_FaultTouchesOnlyOwnFrames == [][FaultServiceIsolated]_vars

(***************************************************************************)
(* C10.  Scenario A ([0,1,2,0,1] with two frames under FIFO) produces four *)
(* page faults, one on the first resolution of each of the first four      *)
(* references, the third evicting page 0 from the smaller frame, and the   *)
(* fifth reference hits on its first resolution.                           *)
(***************************************************************************)
StepKind(step) ==
    CASE step.event \in {"tlb_hit", "page_hit"} -> "hit"
      [] OTHER -> step.event

\* The page, the kind and the frame of every step of the run.
ScenarioATrace ==
    << <<0, "page_fault", -1>>, <<0, "page_fault_handled", 0>>, <<0, "hit", 0>>,
       <<1, "page_fault", -1>>, <<1, "page_fault_handled", 1>>, <<1, "hit", 1>>,
       <<2, "page_fault", -1>>, <<2, "page_fault_handled", 0>>, <<2, "hit", 0>>,
       <<0, "page_fault", -1>>, <<0, "page_fault_handled", 0>>, <<0, "hit", 0>>,
       <<1, "hit", 1>>,
       <<-1, "process_complete", -1>> >>

C10_ScenarioA ==
    config = ScenarioA =>
        /\ Len(steps) <= Len(ScenarioATrace)
        /\ \A i \in 1 .. Len(steps) :
              <<steps[i].page_number, StepKind(steps[i]), steps[i].frame_number>>
                  = ScenarioATrace[i]
        /\ mmu.page_fault_counts[0] <= 4
        /\ mmu.processes[0].completed /\ steps # <<>> =>
              /\ mmu.page_fault_counts[0] = 4
              /\ Len(steps) = Len(ScenarioATrace)

(***************************************************************************)
(* Witnesses: reachable states in which the cases of the claims happen.    *)
(***************************************************************************)
LastStep == steps[Len(steps)]

\* A page of a live process has been evicted while the TLB holds entries.
C4_Witness ==
    \E p \in Procs :
        /\ ~mmu.processes[p].completed
        /\ \E g \in Range(mmu.m) :
              ~mmu.page_table[p][g].valid /\ mmu.page_table[p][g].frame # -1
        /\ \E i \in Range(mmu.s) : mmu.tlb[i].valid /\ mmu.tlb[i].pid = p
        /\ \E q \in Procs : mmu.processes[q].completed

\* A run of two processes that shared a page and served a protection fault
\* has ended with both complete.
C6_Witness ==
    /\ ~is_running /\ mmu.k = 2 /\ AllComplete
    /\ \E i \in 1 .. Len(steps) : steps[i].event = "protection_fault_handled"
    /\ \E i \in 1 .. Len(steps) : steps[i].event = "page_fault_handled"

\* A handled page fault was retried after another process ran, in one run as
\* a hit and in another as a protection fault.
C7_Witness ==
    /\ \E i \in 1 .. Len(steps) :
          /\ steps[i].event = "page_fault_handled"
          /\ NextStepOf(i) > i + 1
          /\ steps[NextStepOf(i)].event = "protection_fault"
    /\ \E i \in 1 .. Len(steps) :
          /\ steps[i].event = "page_fault_handled"
          /\ NextStepOf(i) > i + 1
          /\ steps[NextStepOf(i)].event \in {"tlb_hit", "page_hit"}

\* A process at its quota has just evicted one of its pages although the
\* free pool holds frames that a completed process returned.
C8_Witness ==
    /\ Len(steps) > 0 /\ LastStep.event = "page_fault_handled"
    /\ LET p == LastStep.process_id IN
       /\ mmu.processes[p].usecount = mmu.processes[p].allocount
       /\ \E g \in Range(mmu.m) :
             /\ ~mmu.page_table[p][g].valid
             /\ mmu.page_table[p][g].frame = LastStep.frame_number
       /\ Len(mmu.free_frames) > 0
       /\ \E q \in Procs \ {p} : mmu.processes[q].completed
       /\ mmu.processes[p].current_index = Len(mmu.processes[p].reference_string) - 1

\* Scenario A has run to its end.
C10_Witness ==
    /\ config = ScenarioA
    /\ pc = "idle"
    /\ Len(steps) = Len(ScenarioATrace)

(***************************************************************************)
(* C11.  With sharing enabled, a fault on shareable page 0 while another   *)
(* process holds page 0 installs the entry on that process's frame and     *)
(* marks both entries read-only and shared; every later WRITE to page 0 by *)
(* either process returns a protection fault.                              *)
(***************************************************************************)
Entry(p, g) == mmu.page_table[p][g]

\* The step that services a fault through the sharing branch leaves both
\* entries valid on the sharer's frame, read-only and shared.
SharingInstallShape ==
    [][SharingInstall =>
          LET p == current_process
              g == CurrentPage
              o == SetMin(Sharers(mmu, p, g))
          IN  /\ mmu'.page_table[p][g].valid /\ mmu'.page_table[o][g].valid
              /\ mmu'.page_table[p][g].frame = mmu.page_table[o][g].frame
              /\ mmu'.page_table[o][g].frame = mmu.page_table[o][g].frame
              /\ mmu'.page_table[p][g].read_only /\ mmu'.page_table[p][g].shared
              /\ mmu'.page_table[o][g].read_only /\ mmu'.page_table[o][g].shared]_vars

\* The loop is about to resolve a reference of the process at the head.
AtDispatch == pc = "loop" /\ ~is_simulation_complete /\ ready_queue # <<>>

NextPid == Head(ready_queue)

NextPage ==
    mmu.processes[NextPid].reference_string[mmu.processes[NextPid].current_index + 1]

HasNextPage ==
    mmu.processes[NextPid].current_index < Len(mmu.processes[NextPid].reference_string)

\* The last step of process p in the trace, 0 if none.
LastStepOf(p) ==
    LET own == {j \in 1 .. Len(steps) : steps[j].process_id = p}
    IN  IF own = {} THEN 0 ELSE SetMax(own)

\* The head process is about to repeat a WRITE to a shareable page that got
\* a protection fault, so that its entry was one of the two marked read-only.
WriteAfterCopy ==
    /\ AtDispatch /\ HasNextPage
    /\ mmu.enable_shared_memory /\ NextPage \in mmu.shared_page_numbers
    /\ access[NextPid] = "WRITE"
    /\ LastStepOf(NextPid) # 0
    /\ steps[LastStepOf(NextPid)].event = "protection_fault_handled"

C11_SharedWriteAlwaysProtectionFault ==
    SharingInstallShape /\ [][WriteAfterCopy => pc' = "protection_fault"]_vars

\* C11 as amended: the WRITE returns a protection fault as long as the entry
\* is still valid and read-only.
WriteToReadOnly ==
    /\ AtDispatch /\ HasNextPage
    /\ mmu.core = "backend"
    /\ Entry(NextPid, NextPage).valid /\ Entry(NextPid, NextPage).read_only

ReadOnlyOnlyByInstall ==
    \A p \in Procs : \A g \in Range(mmu.m) :
        Entry(p, g).read_only =>
            /\ mmu.enable_shared_memory /\ g \in mmu.shared_page_numbers
            /\ Entry(p, g).shared

C11_SharedWriteProtectionFaultWhileReadOnly ==
    /\ SharingInstallShape
    /\ []ReadOnlyOnlyByInstall
    /\ [](WriteToReadOnly =>
            handle_page_request(mmu, NextPid, NextPage, "WRITE").event = "protection_fault")
    /\ [][WriteToReadOnly /\ access[NextPid] = "WRITE" => pc' = "protection_fault"]_vars
    /\ [][WriteToReadOnly => pc' # "page_fault"]_vars

\* Process 2 has just got a protection fault on the page it shares, on one
\* frame, with process 1; both entries are read-only and shared.
C11_Witness ==
    /\ pc = "protection_fault"
    /\ mmu.k = 2
    /\ LET p == current_process
           o == 1 - current_process
       IN  /\ Entry(p, 0).valid /\ Entry(o, 0).valid
           /\ Entry(p, 0).frame = Entry(o, 0).frame
           /\ Entry(p, 0).read_only /\ Entry(p, 0).shared
           /\ Entry(o, 0).read_only /\ Entry(o, 0).shared
           /\ LastStepOf(p) > 2
           /\ steps[LastStepOf(p) - 2].event = "page_fault_handled"
           /\ steps[LastStepOf(p) - 2].process_id = p

(***************************************************************************)
(* C12.  The logical clock is 0 after configuration, goes up by exactly 1  *)
(* on every handle_page_request call whatever its outcome, is changed by   *)
(* no other operation and never decreases during a run.                    *)
(***************************************************************************)
\* Page numbers that are no page of process p: the runs configured here
\* never refer to one, so the invalid outcome is looked at call by call.
NoPages(p) == {-1, mmu.processes[p].m}

\* The call the loop would make now for the process at the head of the
\* queue, were its reference an invalid page, and the release of its frames.
ClockPerCall ==
    AtDispatch =>
        LET p == NextPid IN
        /\ \A g \in NoPages(p) : \A kind \in AccessKinds :
              LET r == ResolveReference(mmu, p, g, kind) IN
              /\ r.event = "invalid_reference"
              /\ r.mmu.timestamp = mmu.timestamp + 1
        /\ free_process_frames(mmu, p).timestamp = mmu.timestamp

\* The steps of the orchestrator.
ClockPerStep ==
    /\ config = NoConfig /\ config' # NoConfig => mmu'.timestamp = 0
    /\ AtDispatch /\ HasNextPage => mmu'.timestamp = mmu.timestamp + 1
    /\ AtDispatch /\ ~HasNextPage => mmu'.timestamp = mmu.timestamp
    /\ pc \in {"page_fault", "protection_fault"} => mmu'.timestamp = mmu.timestamp
    /\ is_running /\ pc # "idle" => mmu'.timestamp >= mmu.timestamp

C12_ClockTicksOncePerResolve == []ClockPerCall /\ [][ClockPerStep]_vars

\* A run has resolved references with every outcome a run can have.
C12_Witness ==
    /\ is_running
    /\ mmu.timestamp >= 4
    /\ \A e \in {"page_fault", "protection_fault", "page_hit", "tlb_hit"} :
          \E i \in 1 .. Len(steps) : steps[i].event = e
    /\ \E p \in Procs : mmu.processes[p].completed

(***************************************************************************)
(* C13.  The timestamps of the trace steps are strictly increasing, so no  *)
(* two steps carry the same timestamp.                                     *)
(***************************************************************************)
C13_StepTimestampsStrictlyIncreasing ==
    \A i, j \in 1 .. Len(steps) : i < j => steps[i].timestamp < steps[j].timestamp

\* The steps a handle_page_request call produces, and the steps that follow
\* one up without a call of their own.
ResolveEvents ==
    {"tlb_hit", "page_hit", "page_fault", "protection_fault", "invalid_reference"}

FollowUpEvents == {"page_fault_handled", "protection_fault_handled", "process_complete"}

\* C13 as amended: the timestamps never decrease; a step of a resolved
\* reference is one above the step before it, and the handled or completion
\* step that follows it carries the same timestamp and the same process.
C13_StepTimestampsOrderResolves ==
    /\ \A i \in 1 .. Len(steps) : steps[i].event \in ResolveEvents \cup FollowUpEvents
    /\ Len(steps) > 0 => steps[1].event \in ResolveEvents
    /\ \A i \in 1 .. Len(steps) - 1 :
          IF steps[i + 1].event \in ResolveEvents
          THEN steps[i + 1].timestamp = steps[i].timestamp + 1
          ELSE /\ steps[i + 1].timestamp = steps[i].timestamp
               /\ steps[i + 1].process_id = steps[i].process_id
               /\ steps[i].event \in ResolveEvents

\* A trace of two processes with a handled fault and a completion in it.
C13_Witness ==
    /\ mmu.k = 2
    /\ Len(steps) >= 6
    /\ \E i \in 2 .. Len(steps) :
          /\ steps[i].event = "page_fault_handled"
          /\ steps[i].timestamp = steps[i - 1].timestamp
    /\ \E i \in 2 .. Len(steps) :
          /\ steps[i].event = "process_complete"
          /\ steps[i].timestamp = steps[i - 1].timestamp
    /\ \E i \in 2 .. Len(steps) : steps[i].process_id # steps[i - 1].process_id

(***************************************************************************)
(* C14.  A handle_page_request call adds 1 to exactly one counter when it  *)
(* returns a TLB hit (the TLB-hit count), a page hit (the page-hit count)  *)
(* or a page fault (the fault count of the calling process), and to none   *)
(* for an invalid reference or a protection fault; a hit is counted as a   *)
(* TLB hit exactly when the TLB held a valid entry for the process and the *)
(* page before the call, and never as both.                                *)
(***************************************************************************)
\* The counters of MMU M1 are those of M0 with dt, dp and df added to the
\* TLB-hit count, the page-hit count and the fault count of process p.
CountersMoved(M0, M1, p, dt, dp, df) ==
    /\ M1.tlb_hit_count = M0.tlb_hit_count + dt
    /\ M1.page_hit_count = M0.page_hit_count + dp
    /\ M1.page_fault_counts =
          [M0.page_fault_counts EXCEPT ![p] = M0.page_fault_counts[p] + df]

CountedAs(M0, M1, p, event) ==
    CASE event = "tlb_hit" -> CountersMoved(M0, M1, p, 1, 0, 0)
      [] event = "page_hit" -> CountersMoved(M0, M1, p, 0, 1, 0)
      [] event = "page_fault" -> CountersMoved(M0, M1, p, 0, 0, 1)
      [] OTHER -> CountersMoved(M0, M1, p, 0, 0, 0)

\* The call the loop would make now for the process at the head of the
\* queue, were its reference an invalid page.
CountersPerCall ==
    AtDispatch =>
    \A g \in NoPages(NextPid) : \A kind \in AccessKinds :
        LET r == ResolveReference(mmu, NextPid, g, kind) IN
        /\ r.event = "invalid_reference"
        /\ CountedAs(mmu, r.mmu, NextPid, r.event)

\* The calls the loop makes: the event is the one of the step it appends.
CountersPerStep ==
    AtDispatch /\ HasNextPage =>
        LET e == steps'[Len(steps) + 1].event IN
        /\ CountedAs(mmu, mmu', NextPid, e)
        /\ e \in {"tlb_hit", "page_hit"} =>
              (e = "tlb_hit" <=> TlbMatches(mmu, NextPid, NextPage) # {})

\* The fault handlers and the release of a process's frames count nothing.
CountersElsewhere ==
    (pc \in {"page_fault", "protection_fault"}) \/ (AtDispatch /\ ~HasNextPage) =>
        CountersMoved(mmu, mmu', 0, 0, 0, 0)

C14_OneCounterPerOutcome ==
    []CountersPerCall /\ [][CountersPerStep /\ CountersElsewhere]_vars

\* Faults and both kinds of hit have been counted in one run, the last of
\* them a page hit on a page whose TLB entry was displaced.
C14_Witness ==
    /\ mmu.tlb_hit_count > 0 /\ mmu.page_hit_count > 0
    /\ \E p \in Procs : mmu.page_fault_counts[p] > 1
    /\ Len(steps) > 0 /\ LastStep.event = "page_hit"

(***************************************************************************)
(* C15.  On every hit, TLB hit or page hit, handle_page_request sets the   *)
(* entry's time to the current clock, adds 1 to its frequency and leaves a *)
(* valid TLB entry for the process and the page whose time is the current  *)
(* clock.                                                                  *)
(***************************************************************************)
\* The outcome r of a call for page g of process p made on MMU M.
HitRefreshes(M, r, p, g) ==
    r.event \in {"tlb_hit", "page_hit"} =>
        /\ r.mmu.page_table[p][g].time = r.mmu.timestamp
        /\ r.mmu.page_table[p][g].frequency = M.page_table[p][g].frequency + 1
        /\ \E i \in Range(M.s) :
              /\ r.mmu.tlb[i].valid
              /\ r.mmu.tlb[i].pid = p /\ r.mmu.tlb[i].pageno = g
              /\ r.mmu.tlb[i].time = r.mmu.timestamp

\* The call the loop is about to make.
C15_HitRefreshesEntryAndTlb ==
    AtDispatch /\ HasNextPage =>
        \A kind \in AccessChoices(NextPid) :
            HitRefreshes(mmu, ResolveReference(mmu, NextPid, NextPage, kind),
                         NextPid, NextPage)

(***************************************************************************)
(* C16, C17, C18.  The victim of an eviction.                              *)
(***************************************************************************)
\* The step services a fault of the current process by an eviction.
EvictingStep ==
    /\ pc \in {"page_fault", "protection_fault"}
    /\ ~SharingInstall
    /\ Len(mmu.free_frames) = 0 \/ AtQuota(current_process)
    /\ ValidPages(mmu, current_process) # {}

\* The pages of the current process the step invalidates; an eviction for a
\* protection fault that picks the written page itself invalidates none,
\* since the page is installed again at once.
Invalidated ==
    {g \in ValidPages(mmu, current_process) :
        ~mmu'.page_table[current_process][g].valid}

Victims ==
    IF pc = "protection_fault" /\ Invalidated = {} THEN {CurrentPage} ELSE Invalidated

Time(g) == mmu.page_table[current_process][g].time

Frequency(g) == mmu.page_table[current_process][g].frequency

Frame(g) == mmu.page_table[current_process][g].frame

\* Nothing of another process loses its validity in the step.
OthersKeepPages ==
    \A o \in Procs \ {current_process} : \A g \in Range(mmu.m) :
        mmu'.page_table[o][g].valid = mmu.page_table[o][g].valid

(***************************************************************************)
(* C16.  Under LRU the victim is the faulting process's valid page with    *)
(* the smallest time, under LFU the one with the smallest frequency, the   *)
(* lowest page number on ties; only the process's own valid pages are      *)
(* candidates.                                                             *)
(***************************************************************************)
LruVictim ==
    EvictingStep /\ mmu.algorithm = "LRU" =>
        /\ OthersKeepPages
        /\ \E v \in ValidPages(mmu, current_process) :
              /\ Victims = {v}
              /\ \A g \in ValidPages(mmu, current_process) \ {v} :
                    Time(v) < Time(g) \/ (Time(v) = Time(g) /\ v < g)

LfuVictim ==
    EvictingStep /\ mmu.algorithm = "LFU" =>
        /\ OthersKeepPages
        /\ \E v \in ValidPages(mmu, current_process) :
              /\ Victims = {v}
              /\ \A g \in ValidPages(mmu, current_process) \ {v} :
                    \/ Frequency(v) < Frequency(g)
                    \/ (Frequency(v) = Frequency(g) /\ v < g)

C16_LruLfuVictim == [][LruVictim /\ LfuVictim]_vars

\* An LFU eviction has just chosen between two pages of equal frequency, and
\* the lower one went.
C16_Witness ==
    /\ mmu.algorithm = "LFU"
    /\ Len(steps) > 0 /\ LastStep.event = "page_fault_handled"
    /\ LET p == LastStep.process_id IN
       /\ ~Entry(p, 0).valid /\ Entry(p, 0).frame # -1
       /\ Entry(p, 1).valid /\ Entry(p, 1).frequency = Entry(p, 0).frequency
       /\ LastStep.page_number > 1

(***************************************************************************)
(* C17.  In a run configured with MRU every eviction takes the faulting    *)
(* process's valid page with the largest time, the lowest page number on   *)
(* ties; the policy set at configuration is the one every eviction of the  *)
(* run applies.                                                            *)
(***************************************************************************)
MruVictim ==
    EvictingStep /\ config.algorithm = "MRU" =>
        /\ OthersKeepPages
        /\ \E v \in ValidPages(mmu, current_process) :
              /\ Victims = {v}
              /\ \A g \in ValidPages(mmu, current_process) \ {v} :
                    Time(v) > Time(g) \/ (Time(v) = Time(g) /\ v < g)

PolicyFixed == config # NoConfig => mmu.algorithm = config.algorithm

C17_MruVictim == []PolicyFixed /\ [][MruVictim]_vars

\* An MRU eviction has just taken the newer of two resident pages.
C17_Witness ==
    /\ config # NoConfig /\ config.algorithm = "MRU"
    /\ Len(steps) > 0 /\ LastStep.event = "page_fault_handled"
    /\ LET p == LastStep.process_id IN
       \E v, g \in Range(mmu.m) :
          /\ v # g /\ v # LastStep.page_number /\ g # LastStep.page_number
          /\ ~Entry(p, v).valid /\ Entry(p, v).frame = LastStep.frame_number
          /\ Entry(p, g).valid /\ Entry(p, g).time < Entry(p, v).time

(***************************************************************************)
(* C18.  Under FIFO the victim is the faulting process's valid page whose  *)
(* entry holds the smallest frame id.                                      *)
(***************************************************************************)
FifoVictim ==
    EvictingStep /\ mmu.algorithm = "FIFO" =>
        \E v \in ValidPages(mmu, current_process) :
            /\ Victims = {v}
            /\ \A g \in ValidPages(mmu, current_process) : Frame(v) <= Frame(g)

C18_FifoVictim == [][FifoVictim]_vars

\* A FIFO eviction has just taken the page in the smaller of two frames,
\* which was not the page with the older time.
C18_Witness ==
    /\ mmu.algorithm = "FIFO"
    /\ Len(steps) > 0 /\ LastStep.event = "page_fault_handled"
    /\ LET p == LastStep.process_id IN
       \E v, g \in Range(mmu.m) :
          /\ v # g /\ v # LastStep.page_number /\ g # LastStep.page_number
          /\ ~Entry(p, v).valid /\ Entry(p, v).frame = LastStep.frame_number
          /\ Entry(p, g).valid /\ Entry(p, g).frame > Entry(p, v).frame
          /\ Entry(p, g).time < Entry(p, v).time

(***************************************************************************)
(* C19.  In the non-shared branch of handle_page_fault a page of the       *)
(* process is evicted only when no free frame exists and the process is at *)
(* or over its quota; in every other case a frame is taken from the free   *)
(* pool and the usage counter goes up by 1.  The installed entry is valid, *)
(* private and writable, its time the current clock and its frequency      *)
(* reset.                                                                  *)
(***************************************************************************)
PrivateFault == pc = "page_fault" /\ ~SharingInstall

NoFreeFrame == Len(mmu.free_frames) = 0

\* The step took no frame from the pool: the frame came from an eviction.
ServedByEviction ==
    /\ mmu'.free_frames = mmu.free_frames
    /\ UseCounts' = UseCounts
    /\ ValidPages(mmu, current_process) # {} =>
          /\ Cardinality(Invalidated) = 1
          /\ \A v \in Invalidated :
                mmu'.page_table[current_process][CurrentPage].frame = Frame(v)

\* The step popped the frame at the end of the free list.
ServedFromPool ==
    /\ ~NoFreeFrame
    /\ mmu'.free_frames = SubSeq(mmu.free_frames, 1, Len(mmu.free_frames) - 1)
    /\ mmu'.page_table[current_process][CurrentPage].frame
          = mmu.free_frames[Len(mmu.free_frames)]
    /\ UseCounts' = [UseCounts EXCEPT ![current_process] = @ + 1]
    /\ Invalidated = {}

InstalledFresh ==
    LET e == mmu'.page_table[current_process][CurrentPage] IN
    /\ e.valid /\ ~e.shared /\ ~e.read_only
    /\ e.time = mmu.timestamp /\ mmu'.timestamp = mmu.timestamp
    /\ e.frequency = 1

C19_EvictOnlyWhenNoFrameAndAtQuota ==
    [][PrivateFault =>
          /\ InstalledFresh
          /\ IF NoFreeFrame /\ AtQuota(current_process)
             THEN ServedByEviction
             ELSE ServedFromPool]_vars

\* C19 as amended: the eviction happens when no free frame exists or the
\* process is at or over its quota.
C19_EvictWhenNoFrameOrAtQuota ==
    [][PrivateFault =>
          /\ InstalledFresh
          /\ IF NoFreeFrame \/ AtQuota(current_process)
             THEN ServedByEviction
             ELSE ServedFromPool]_vars

\* A fault of a process at its quota has just been served by the eviction of
\* the page an earlier fault had put into a frame of the pool, while the pool
\* holds a free frame.
C19_Witness ==
    /\ Len(steps) > 0 /\ LastStep.event = "page_fault_handled"
    /\ Len(mmu.free_frames) > 0
    /\ LET p == LastStep.process_id
           g == LastStep.page_number
       IN  /\ mmu.processes[p].usecount = mmu.processes[p].allocount
           /\ Entry(p, g).valid /\ Entry(p, g).frequency = 1
           /\ Entry(p, g).time = mmu.timestamp
           /\ ~Entry(p, g).shared /\ ~Entry(p, g).read_only
           /\ \E v \in Range(mmu.m) \ {g} :
                 ~Entry(p, v).valid /\ Entry(p, v).frame = Entry(p, g).frame
           /\ \E i \in 1 .. Len(steps) - 1 :
                 /\ steps[i].event = "page_fault_handled"
                 /\ steps[i].process_id = p
                 /\ steps[i].frame_number = Entry(p, g).frame

(***************************************************************************)
(* C20.  A mapping that is not in the TLB is installed in the first        *)
(* invalid slot if there is one, displacing nothing; otherwise it replaces *)
(* the valid slot with the smallest time over all processes, the first on  *)
(* ties.  A TLB hit sets the time of its entry to the current clock, so    *)
(* that this entry is not the next one replaced while an older one exists. *)
(***************************************************************************)
\* The TLB as the install finds it: the entries of the pages the step
\* evicts are invalid by then.
TlbAtInstall ==
    [i \in Range(mmu.s) |->
        IF /\ mmu.tlb[i].valid
           /\ mmu.tlb[i].pid = current_process'
           /\ pc = "page_fault"
           /\ mmu.tlb[i].pageno \in Invalidated
        THEN [mmu.tlb[i] EXCEPT !.valid = FALSE]
        ELSE mmu.tlb[i]]

\* The slot the rule names for a TLB t.
SlotFor(t) ==
    LET empty == {i \in DOMAIN t : ~t[i].valid}
        oldest == {i \in DOMAIN t : \A j \in DOMAIN t : t[i].time <= t[j].time}
    IN  IF empty # {} THEN SetMin(empty) ELSE SetMin(oldest)

\* The mapping of page g of process p is not in the TLB t.
NotInTlb(t, p, g) ==
    \A i \in DOMAIN t : ~(t[i].valid /\ t[i].pid = p /\ t[i].pageno = g)

Installs(t, p, g) ==
    NotInTlb(t, p, g) =>
        LET slot == SlotFor(t) IN
        /\ mmu'.tlb[slot].valid
        /\ mmu'.tlb[slot].pid = p /\ mmu'.tlb[slot].pageno = g
        /\ mmu'.tlb[slot].frameno = mmu'.page_table[p][g].frame
        /\ mmu'.tlb[slot].time = mmu'.timestamp
        /\ \A i \in DOMAIN t \ {slot} : mmu'.tlb[i] = t[i]

\* The step resolves a reference and the process goes on afterwards.
ResolvesAndGoesOn ==
    /\ AtDispatch /\ HasNextPage
    /\ ~mmu'.processes[NextPid].completed

TlbInstallRule ==
    /\ pc = "page_fault" => Installs(TlbAtInstall, current_process, CurrentPage)
    /\ ResolvesAndGoesOn /\ steps'[Len(steps) + 1].event = "page_hit" =>
          Installs(mmu.tlb, NextPid, NextPage)

TlbHitRefreshes ==
    ResolvesAndGoesOn /\ steps'[Len(steps) + 1].event = "tlb_hit" =>
        \E i \in Range(mmu.s) :
            /\ mmu.tlb[i].valid /\ mmu.tlb[i].pid = NextPid
            /\ mmu.tlb[i].pageno = NextPage
            /\ mmu'.tlb = [mmu.tlb EXCEPT ![i].time = mmu'.timestamp]
            /\ \A j \in Range(mmu.s) \ {i} :
                  mmu.tlb[j].valid => mmu.tlb[j].time < mmu'.tlb[i].time

C20_TlbInstallAndRefresh == [][TlbInstallRule /\ TlbHitRefreshes]_vars

\* The index of the first step of the trace for page g of process p.
FirstStepOf(p, g) ==
    SetMin({i \in 1 .. Len(steps) :
               steps[i].process_id = p /\ steps[i].page_number = g})

\* In a full TLB of two slots an install has just replaced slot 1: the entry
\* of slot 0 is the older mapping, kept because a hit refreshed it, and the
\* page that was in slot 1 is still resident.
C20_Witness ==
    /\ mmu.s = 2
    /\ Len(steps) > 0 /\ LastStep.event = "page_fault_handled"
    /\ mmu.tlb[0].valid /\ mmu.tlb[1].valid
    /\ mmu.tlb[1].pid = LastStep.process_id
    /\ mmu.tlb[1].pageno = LastStep.page_number
    /\ mmu.tlb[1].time = mmu.timestamp
    /\ \E i \in 1 .. Len(steps) :
          /\ steps[i].event = "tlb_hit"
          /\ steps[i].process_id = mmu.tlb[0].pid
          /\ steps[i].page_number = mmu.tlb[0].pageno
          /\ steps[i].timestamp = mmu.tlb[0].time
    /\ \E v \in Range(mmu.m) :
          /\ Entry(mmu.tlb[0].pid, v).valid
          /\ TlbMatches(mmu, mmu.tlb[0].pid, v) = {}
          /\ FirstStepOf(mmu.tlb[0].pid, mmu.tlb[0].pageno)
                < FirstStepOf(mmu.tlb[0].pid, v)

(***************************************************************************)
(* Configurations that need not be valid.  configure is tried with every   *)
(* combination of small sizes, zero included, and with lists of reference  *)
(* strings of any length up to two whose page numbers may be negative or   *)
(* too large; the orchestrator is the one of python/core.                  *)
(***************************************************************************)
TrySizes == 0 .. 2

TryTlb == 0 .. 1

\* Reference strings of up to two page numbers from -1..1, the empty string
\* included, and a string whose only page number is -2.
TryStrings == UNION {[1 .. l -> -1 .. 1] : l \in 0 .. 2} \cup {<<-2>>}

\* Lists of up to two such strings.
TryLists == UNION {[Range(n) -> TryStrings] : n \in 0 .. 2}

ExplicitTries ==
    {[core |-> "python",
      num_processes |-> k, max_pages_per_process |-> m, num_frames |-> f,
      tlb_size |-> s, algorithm |-> "LRU",
      auto_generate_references |-> FALSE, reference_strings |-> r,
      enable_shared_memory |-> FALSE]
     : k \in TrySizes, m \in TrySizes, f \in TrySizes, s \in TryTlb, r \in TryLists}

\* Configurations that leave the reference strings to create_processes, for
\* the sizes with which it has no string to generate.
AutoTries ==
    {[core |-> "python",
      num_processes |-> k, max_pages_per_process |-> m, num_frames |-> f,
      tlb_size |-> s, algorithm |-> "LRU",
      auto_generate_references |-> TRUE, reference_strings |-> <<>>,
      enable_shared_memory |-> FALSE]
     : k \in TrySizes, m \in TrySizes, f \in TrySizes, s \in TryTlb}
    \ {c \in [core : {"python"}, num_processes : 1 .. 2,
              max_pages_per_process : 1 .. 2, num_frames : TrySizes,
              tlb_size : TryTlb, algorithm : {"LRU"},
              auto_generate_references : {TRUE}, reference_strings : {<<>>},
              enable_shared_memory : {FALSE}] : TRUE}

TryConfigs == ExplicitTries \cup AutoTries

\* The configurations a configured orchestrator is configured with again: one
\* that passes every check, one with a string too many, one with an empty
\* string.
RetryConfigs ==
    {[core |-> "python",
      num_processes |-> 1, max_pages_per_process |-> 1, num_frames |-> 1,
      tlb_size |-> 1, algorithm |-> "LRU",
      auto_generate_references |-> FALSE, reference_strings |-> r,
      enable_shared_memory |-> FALSE]
     : r \in {[p \in Range(1) |-> <<0>>],
              [p \in Range(2) |-> <<0>>],
              [p \in Range(1) |-> <<>>]}}

\* The first configure of an orchestrator.
ConfigureTry ==
    /\ pc = "idle"
    /\ config = NoConfig
    /\ \E c \in TryConfigs : configure(c)

\* configure on an orchestrator that holds a configuration already.
Reconfigure ==
    /\ pc = "idle"
    /\ config # NoConfig
    /\ \E c \in RetryConfigs : configure(c)

ConfigNext ==
    \/ ConfigureTry
    \/ Reconfigure
    \/ RunSimulation
    \/ Dispatch
    \/ HandlePageFault
    \/ Finish
    \/ Reset

ConfigSpec == Init /\ [][ConfigNext]_vars

(***************************************************************************)
(* C21: an invalid reference ends the process that made it, and only it.   *)
(***************************************************************************)
\* The MMU was built with sizes the specification accepts.
SizesValid == mmu.k >= 1 /\ mmu.m >= 1 /\ mmu.f >= mmu.k /\ mmu.s >= 1

\* The call for a page that is none of the head process's pages: result -2,
\* and an MMU that differs from the present one in the clock only.
InvalidPerCall ==
    AtDispatch =>
    \A g \in NoPages(NextPid) : \A kind \in AccessKinds :
        ResolveReference(mmu, NextPid, g, kind)
            = [frame |-> -2, event |-> "invalid_reference",
               mmu |-> [mmu EXCEPT !.timestamp = @ + 1]]

\* The head process is about to refer to a page it does not have.
AtInvalidReference ==
    /\ AtDispatch /\ HasNextPage
    /\ NextPage < 0 \/ NextPage >= mmu.processes[NextPid].m

\* What a step says of its event, without the snapshot and the counters.
EventOf(step) ==
    [timestamp |-> step.timestamp, process_id |-> step.process_id,
     page_number |-> step.page_number, event |-> step.event,
     frame_number |-> step.frame_number]

\* The frames a sequence of frame numbers holds.
FramesOf(frames) == {frames[i] : i \in 1 .. Len(frames)}

\* The dispatch of such a reference: the two steps it emits, the process
\* marked complete with its cursor where it was, none of its entries valid,
\* the frames it held in the free list, the queue without it, and nothing of
\* any other process touched.
InvalidEndsOnlyThatProcess ==
    AtInvalidReference =>
        LET p == NextPid IN
        /\ Len(steps') = Len(steps) + 2
        /\ SubSeq(steps', 1, Len(steps)) = steps
        /\ EventOf(steps'[Len(steps) + 1]) =
               [timestamp |-> mmu.timestamp + 1, process_id |-> p,
                page_number |-> NextPage, event |-> "invalid_reference",
                frame_number |-> -2]
        /\ EventOf(steps'[Len(steps) + 2]) =
               [timestamp |-> mmu.timestamp + 1, process_id |-> p,
                page_number |-> -1, event |-> "process_complete",
                frame_number |-> -1]
        /\ ~mmu.processes[p].completed /\ mmu'.processes[p].completed
        /\ mmu'.processes[p].current_index = mmu.processes[p].current_index
        /\ mmu'.processes[p].usecount = 0
        /\ \A g \in Range(mmu.m) : ~mmu'.page_table[p][g].valid
        /\ \A g \in ValidPages(mmu, p) :
              mmu.page_table[p][g].frame \in FramesOf(mmu'.free_frames)
        /\ ready_queue' = Tail(ready_queue)
        /\ completed_count' = completed_count + 1
        /\ \A q \in Procs \ {p} :
              /\ mmu'.processes[q] = mmu.processes[q]
              /\ mmu'.page_table[q] = mmu.page_table[q]

\* After its invalid reference a process has its completion step and no step
\* after that.
InvalidIsLast ==
    \A i \in 1 .. Len(steps) :
        steps[i].event = "invalid_reference" =>
            /\ i < Len(steps)
            /\ steps[i + 1].event = "process_complete"
            /\ steps[i + 1].process_id = steps[i].process_id
            /\ \A j \in i + 2 .. Len(steps) : steps[j].process_id # steps[i].process_id

\* run_simulation has returned a result with success set.
RunEnded == pc = "idle" /\ result = Returned("run_simulation") /\ steps # <<>>

HadInvalidReference(q) ==
    \E i \in 1 .. Len(steps) :
        steps[i].event = "invalid_reference" /\ steps[i].process_id = q

\* A run with valid sizes is not cut short, and when it has ended every
\* process is complete: at the end of its reference string when it made no
\* invalid reference, at its invalid reference otherwise.
OthersRunToTheEnd ==
    SizesValid =>
        /\ result # Failed("run_simulation")
        /\ RunEnded =>
            \A q \in Procs :
                LET process == mmu.processes[q] IN
                /\ process.completed
                /\ IF HadInvalidReference(q)
                   THEN /\ process.current_index < Len(process.reference_string)
                        /\ LET g == process.reference_string[process.current_index + 1]
                           IN  g < 0 \/ g >= process.m
                   ELSE process.current_index = Len(process.reference_string)

\* C21: a reference to a page below 0 or not below the page count of the
\* process is answered with -2 and moves only the clock; the orchestrator
\* completes that process alone, never dispatches it again, and every other
\* process still reaches the end of its reference string.
C21_InvalidReferenceEndsOnlyItsProcess ==
    /\ [](InvalidPerCall /\ InvalidIsLast /\ OthersRunToTheEnd)
    /\ [][InvalidEndsOnlyThatProcess]_vars

\* A run of two processes has ended; one of them made an invalid reference
\* while it held a frame, and the other went on to a hit after that.
C21_Witness ==
    /\ RunEnded /\ SizesValid /\ mmu.k = 2
    /\ \E i \in 1 .. Len(steps) :
          /\ steps[i].event = "invalid_reference"
          /\ \E j \in 1 .. i :
                /\ steps[j].event = "page_fault_handled"
                /\ steps[j].process_id = steps[i].process_id
          /\ \E j \in i + 2 .. Len(steps) :
                /\ steps[j].event \in {"tlb_hit", "page_hit"}
                /\ steps[j].process_id # steps[i].process_id

(***************************************************************************)
(* C22: sizes the specification rejects.                                   *)
(***************************************************************************)
SizesRejected(c) ==
    \/ c.num_processes < 1
    \/ c.max_pages_per_process < 1
    \/ c.num_frames < c.num_processes
    \/ c.tlb_size < 1

\* configure has built the MMU at hand from the configuration c.
BuiltFrom(c) ==
    /\ mmu # NoMMU
    /\ mmu.k = c.num_processes /\ mmu.m = c.max_pages_per_process
    /\ mmu.f = c.num_frames /\ mmu.s = c.tlb_size

\* C22: with a process count below 1, a page maximum below 1, fewer frames
\* than processes or a TLB size below 1, configure or run_simulation fails
\* before a reference is resolved and before a step is emitted: when
\* configure has gone through with such sizes, the clock is still 0, the
\* trace is empty and no run has returned success.
C22_RejectedSizesFailBeforeAnyReference ==
    (config # NoConfig /\ SizesRejected(config) /\ BuiltFrom(config)) =>
        /\ mmu.timestamp = 0
        /\ steps = <<>>
        /\ result # Returned("run_simulation")

(***************************************************************************)
(* C23: explicit reference strings the specification rejects.              *)
(***************************************************************************)
StringsRejected(c) ==
    \/ Cardinality(DOMAIN c.reference_strings) # c.num_processes
    \/ \E p \in DOMAIN c.reference_strings :
          \/ Len(c.reference_strings[p]) = 0
          \/ \E i \in 1 .. Len(c.reference_strings[p]) :
                c.reference_strings[p][i] \notin Range(c.max_pages_per_process)

\* C23: configure fails for explicit reference strings whose number is not
\* the process count, one of which is empty, or one of which holds a page
\* number outside 0..max_pages_per_process-1, negative ones included; so no
\* run of explicit strings has an invalid_reference step.
C23_RejectedStringsFailAtConfigure ==
    (config # NoConfig /\ ~config.auto_generate_references) =>
        /\ (result.call = "configure" /\ StringsRejected(config))
              => result = Failed("configure")
        /\ \A i \in 1 .. Len(steps) : steps[i].event # "invalid_reference"

(***************************************************************************)
(* C24: what a failed configure leaves behind.                             *)
(***************************************************************************)
\* C24: after a configure that failed, run_simulation reports a failure and
\* does not run: while the configuration held is one configure raises for,
\* the orchestrator is never inside the loop and no run has returned success.
C24_FailedConfigureLeavesNothingToRun ==
    (config # NoConfig /\ configure_raises(config)) =>
        /\ pc = "idle"
        /\ result # Returned("run_simulation")

(***************************************************************************)
(* C25: two runs of one configuration.                                     *)
(***************************************************************************)
\* The frame quotas of a process list.
Quotas(processes) == [p \in DOMAIN processes |-> processes[p].allocount]

\* C25: two runs of the same sizes, policy and explicit reference strings
\* get the same frame quotas (and from them the same trace and counts): any
\* two process lists configure can build from the configuration held have
\* the same quotas.
C25_SameConfigurationSameQuotas ==
    config # NoConfig =>
        \A one, other \in create_processes_with_references(
                config.num_processes, config.max_pages_per_process,
                config.num_frames, config.reference_strings) :
            Quotas(one) = Quotas(other)

(***************************************************************************)
(* C26: what a sharing installation changes.                               *)
(***************************************************************************)
\* The step that services a fault through the sharing branch: the pool, the
\* physical map, the usage counters, the clock and the counters stay; the
\* faulting entry becomes a read-only shared mapping of the sharer's frame,
\* the sharer's entry gets the two flags, every other entry stays as it is,
\* and the TLB holds the new mapping.
SharingInstallEffect ==
    SharingInstall =>
        LET p == current_process
            g == CurrentPage
            o == SetMin(Sharers(mmu, p, g))
            fr == mmu.page_table[o][g].frame
        IN  /\ mmu'.free_frames = mmu.free_frames
            /\ mmu'.physical_memory = mmu.physical_memory
            /\ mmu'.processes = mmu.processes
            /\ mmu'.timestamp = mmu.timestamp
            /\ mmu'.page_fault_counts = mmu.page_fault_counts
            /\ mmu'.page_table[p][g] =
                  [frame |-> fr, valid |-> TRUE, time |-> mmu.timestamp,
                   frequency |-> 1, read_only |-> TRUE, shared |-> TRUE]
            /\ mmu'.page_table[o][g] =
                  [mmu.page_table[o][g] EXCEPT !.read_only = TRUE, !.shared = TRUE]
            /\ \A q \in Procs : \A h \in Range(mmu.m) :
                  (<<q, h>> \notin {<<p, g>>, <<o, g>>})
                      => mmu'.page_table[q][h] = mmu.page_table[q][h]
            /\ \E i \in Range(mmu.s) :
                  mmu'.tlb[i] = [pid |-> p, pageno |-> g, frameno |-> fr,
                                 time |-> mmu.timestamp, valid |-> TRUE]
            /\ Len(steps') = Len(steps) + 1
            /\ SubSeq(steps', 1, Len(steps)) = steps
            /\ EventOf(steps'[Len(steps')]) =
                  [timestamp |-> mmu.timestamp, process_id |-> p, page_number |-> g,
                   event |-> "page_fault_handled", frame_number |-> fr]

\* C26: a sharing installation allocates and evicts nothing.  The free pool,
\* the physical-memory map, the usage counters and the validity of every
\* other entry are unchanged; the faulting entry becomes valid on the
\* sharer's frame, both entries are read-only and shared, and the TLB gains
\* the mapping.
C26_SharingInstallAllocatesNothing == [][SharingInstallEffect]_vars

\* A sharing installation has just been made while a frame was free and the
\* faulting process had none of its quota in use.
C26_Witness ==
    /\ steps # <<>> /\ pc = "loop"
    /\ LastStep.event = "page_fault_handled"
    /\ LET p == LastStep.process_id
           g == LastStep.page_number
       IN  /\ Entry(p, g).valid /\ Entry(p, g).shared /\ Entry(p, g).read_only
           /\ \E q \in Procs : SharedMapping(p, q, g)
           /\ mmu.processes[p].usecount = 0
           /\ Len(mmu.free_frames) > 0

(***************************************************************************)
(* C27: a WRITE to a read-only entry.                                      *)
(***************************************************************************)
\* The valid read-only entries, as (process, page) pairs.
ReadOnlyEntries ==
    {e \in ValidEntries : e[2] < mmu.processes[e[1]].m /\ Entry(e[1], e[2]).read_only}

\* handle_page_request for such an entry: a WRITE gives a protection fault
\* without a frame and an MMU that differs in the clock only; a READ gives a
\* hit on the entry's frame, counted and refreshed as any hit.
WriteProtected(p, g) ==
    LET w == handle_page_request(mmu, p, g, "WRITE")
        r == handle_page_request(mmu, p, g, "READ")
    IN  /\ w = [frame |-> -1, event |-> "protection_fault",
                mmu |-> [mmu EXCEPT !.timestamp = @ + 1]]
        /\ r.event = (IF TlbMatches(mmu, p, g) # {} THEN "tlb_hit" ELSE "page_hit")
        /\ r.frame = Entry(p, g).frame
        /\ CountedAs(mmu, r.mmu, p, r.event)
        /\ r.mmu.page_table[p][g] =
              [Entry(p, g) EXCEPT !.time = mmu.timestamp + 1, !.frequency = @ + 1]

\* C27: a WRITE resolved against a valid read-only entry is a protection
\* fault with no frame that moves nothing but the clock: no counter, no
\* entry, no TLB slot, no pool or map state; a READ of the entry is a hit.
C27_WriteToReadOnlyOnlyTicks ==
    mmu.core = "backend" => \A e \in ReadOnlyEntries : WriteProtected(e[1], e[2])

\* The process at the head of the queue is about to refer to a page it holds
\* read-only; the page is held read-only by two processes, one with a TLB
\* slot for it and one without.
C27_Witness ==
    /\ AtDispatch /\ HasNextPage
    /\ <<NextPid, NextPage>> \in ReadOnlyEntries
    /\ \E e \in ReadOnlyEntries : TlbMatches(mmu, e[1], e[2]) # {}
    /\ \E e \in ReadOnlyEntries : TlbMatches(mmu, e[1], e[2]) = {}

(***************************************************************************)
(* C28: the copy made on a protection fault.                               *)
(***************************************************************************)
\* handle_protection_fault for a valid read-only entry of p: the entry is
\* valid, writable and not shared on the frame returned; frame, free list,
\* usage counters, physical map, TLB and the validity of p's pages are those
\* the non-shared branch of handle_page_fault would leave; no entry of
\* another process changes.
CopyIsPrivate(p, g) ==
    LET r == handle_protection_fault(mmu, p, g)
        f == handle_page_fault([mmu EXCEPT !.enable_shared_memory = FALSE], p, g)
        a == AllocateFrame(mmu, p)
    IN  /\ r.mmu.page_table[p][g] =
              [frame |-> r.frame, valid |-> TRUE, time |-> mmu.timestamp,
               frequency |-> Entry(p, g).frequency + 1,
               read_only |-> FALSE, shared |-> FALSE]
        /\ r.frame = a.frame /\ r.frame = f.frame
        /\ r.mmu.free_frames = f.mmu.free_frames
        /\ r.mmu.processes = f.mmu.processes
        /\ r.mmu.physical_memory = f.mmu.physical_memory
        /\ r.mmu.tlb = f.mmu.tlb
        /\ \A h \in Range(mmu.m) :
              r.mmu.page_table[p][h].valid = f.mmu.page_table[p][h].valid
        /\ \A q \in Procs \ {p} : r.mmu.page_table[q] = mmu.page_table[q]

\* C28: handle_protection_fault leaves the process with a valid, writable
\* entry that is not shared, got through the same allocate-or-evict-own-page
\* path as a non-shared page fault, and changes no entry of another process:
\* the sharer's entry keeps frame, validity and flags.
C28_CopyOnWriteIsPrivate ==
    \A e \in ReadOnlyEntries : CopyIsPrivate(e[1], e[2])

\* Two processes hold a page read-only; for one the copy would come from the
\* free pool, for the other, at its quota, from an eviction of its own.
C28_Witness ==
    /\ Len(mmu.free_frames) > 0
    /\ \E e \in ReadOnlyEntries : ~AtQuota(e[1])
    /\ \E e \in ReadOnlyEntries : AtQuota(e[1])

(***************************************************************************)
(* C29: round-robin dispatch.                                              *)
(***************************************************************************)
\* The steps of the trace that a dispatch opened: every dispatch of a
\* process with a reference left resolves that reference first.
Dispatches == {i \in 1 .. Len(steps) : steps[i].event \in ResolveEvents}

\* The dispatches made before step i.
DispatchesBefore(i) == {j \in Dispatches : j < i}

\* Process q had its completion step before step i.
CompletedBefore(q, i) ==
    \E j \in 1 .. i - 1 :
        steps[j].event = "process_complete" /\ steps[j].process_id = q

\* The first dispatches go through the processes in the order of their ids.
FirstRoundInOrder ==
    \A i \in Dispatches :
        Cardinality(DispatchesBefore(i)) < mmu.k
            => steps[i].process_id = Cardinality(DispatchesBefore(i))

\* Between two consecutive dispatches of a process every other process is
\* dispatched once when it was not complete at the first of the two, and not
\* at all when it was.
OneTurnEach ==
    \A a, b \in Dispatches :
        (/\ a < b
         /\ steps[a].process_id = steps[b].process_id
         /\ \A c \in Dispatches : a < c /\ c < b => steps[c].process_id # steps[a].process_id)
        => \A q \in Procs \ {steps[a].process_id} :
              Cardinality({c \in Dispatches : a < c /\ c < b /\ steps[c].process_id = q})
                  = IF CompletedBefore(q, a) THEN 0 ELSE 1

\* A step of the run takes the head of the queue and puts a process back at
\* the tail only.
RequeuedAtTail ==
    /\ pc = "loop" =>
          \/ ready_queue' = ready_queue
          \/ ready_queue' = Tail(ready_queue)
          \/ ready_queue' = Append(Tail(ready_queue), Head(ready_queue))
    /\ pc \in {"page_fault", "protection_fault"} =>
          \/ ready_queue' = Append(ready_queue, current_process)
          \/ pc' = "idle" /\ ready_queue' = ready_queue

\* C29: the processes are first dispatched in the order of their ids, a
\* process put back goes to the tail of the queue, and between two
\* consecutive dispatches of one process every other process that is not
\* complete is dispatched exactly once.
C29_RoundRobin ==
    /\ [](FirstRoundInOrder /\ OneTurnEach)
    /\ [][RequeuedAtTail]_vars

\* A run of three processes has ended in which a process had both other
\* processes dispatched between two of its turns, and a process had two turns
\* in a row after the others had completed.
C29_Witness ==
    /\ mmu.k = 3 /\ pc = "idle" /\ steps # <<>>
    /\ \E a, b \in Dispatches :
          /\ a < b /\ steps[a].process_id = steps[b].process_id
          /\ Cardinality({steps[c].process_id : c \in {d \in Dispatches : a < d /\ d < b}}) = 2
    /\ \E a, b \in Dispatches :
          /\ a < b /\ steps[a].process_id = steps[b].process_id
          /\ {c \in Dispatches : a < c /\ c < b} = {}

(***************************************************************************)
(* C30: completion is counted once per process.                            *)
(***************************************************************************)
\* The processes whose completion flag is set.
CompletedProcs == {p \in Procs : mmu.processes[p].completed}

\* The processes in the ready queue.
Queued == {ready_queue[i] : i \in 1 .. Len(ready_queue)}

\* The completion steps of process p in the trace.
CompletionSteps(p) ==
    {i \in 1 .. Len(steps) :
        steps[i].event = "process_complete" /\ steps[i].process_id = p}

\* C30: a process is marked complete at most once in a run, so the completed
\* count is the number of processes with the completion flag set and never
\* above the process count; a complete process is not in the ready queue and
\* has no step after its completion step; the ready queue holds no process
\* twice.
C30_CompletedOnce ==
    /\ completed_count = Cardinality(CompletedProcs)
    /\ completed_count <= mmu.k
    /\ CompletedProcs \cap Queued = {}
    /\ Cardinality(Queued) = Len(ready_queue)
    /\ \A p \in Procs :
          /\ Cardinality(CompletionSteps(p)) <= 1
          /\ \A i \in CompletionSteps(p) :
                /\ mmu.processes[p].completed
                /\ \A j \in i + 1 .. Len(steps) : steps[j].process_id # p

\* Of three processes two are complete, each with its completion step in
\* the trace, and the third waits in the queue for its next turn.
C30_Witness ==
    /\ mmu.k = 3 /\ completed_count = 2
    /\ pc = "loop" /\ Len(ready_queue) = 1
    /\ Cardinality({p \in Procs : CompletionSteps(p) # {}}) = 2
    /\ mmu.processes[Head(ready_queue)].current_index > 0

(***************************************************************************)
(* The result of a run.                                                    *)
(***************************************************************************)
\* _generate_result: the totals of the result of a run that returns with
\* success set, read from the MMU and the process list.
generate_result(M) ==
    [success |-> TRUE,
     total_page_faults |-> SumOver(M.page_fault_counts, DOMAIN M.page_fault_counts),
     total_tlb_hits |-> M.tlb_hit_count,
     total_page_hits |-> M.page_hit_count,
     total_references |->
        SumOver([p \in DOMAIN M.processes |-> Len(M.processes[p].reference_string)],
                DOMAIN M.processes)]

\* A rate of SimulationResult, (count / total_references) * 100, kept as the
\* fraction num / den; 0 when there is no reference.
rate(count, total_references) ==
    IF total_references = 0 THEN [num |-> 0, den |-> 1]
    ELSE [num |-> count * 100, den |-> total_references]

page_fault_rate(r) == rate(r.total_page_faults, r.total_references)

tlb_hit_rate(r) == rate(r.total_tlb_hits, r.total_references)

page_hit_rate(r) == rate(r.total_page_hits, r.total_references)

\* run_simulation has returned with success set.
RunSucceeded == pc = "idle" /\ result = Returned("run_simulation")

\* No reference string holds a page its process does not have, so that no
\* reference of the run was an invalid one.
NoInvalidReference ==
    \A p \in Procs :
        \A i \in 1 .. Len(mmu.processes[p].reference_string) :
            mmu.processes[p].reference_string[i] \in Range(mmu.processes[p].m)

\* A rate lies between 0 and 100 percent.
IsPercentage(q) == 0 <= q.num /\ q.num <= 100 * q.den

(***************************************************************************)
(* C31.  In the result of a successful run the TLB hits and the page hits  *)
(* add up to the total references (the sum of the lengths of the reference *)
(* strings) when no reference was invalid, the page faults are at most the *)
(* total references, every rate lies between 0 and 100 percent, and every  *)
(* rate is 0 when there is no reference.                                   *)
(***************************************************************************)
C31_CountsMatchReferences ==
    RunSucceeded =>
        LET r == generate_result(mmu) IN
        /\ NoInvalidReference =>
              r.total_tlb_hits + r.total_page_hits = r.total_references
        /\ r.total_page_faults <= r.total_references
        /\ \A q \in {page_fault_rate(r), tlb_hit_rate(r), page_hit_rate(r)} :
              /\ IsPercentage(q)
              /\ r.total_references = 0 => q.num = 0

(***************************************************************************)
(* C32: the victim of FIFO and the order in which pages came in.           *)
(***************************************************************************)
\* The step of the trace that brought page g of process p in: the last
\* "handled" step for it, 0 if there is none.
FaultIn(p, g) ==
    SetMax({0} \cup {i \in 1 .. Len(steps) :
                /\ steps[i].process_id = p
                /\ steps[i].page_number = g
                /\ steps[i].event \in {"page_fault_handled",
                                       "protection_fault_handled"}})

\* A fault of the current process is about to be serviced by _evict_fifo.
FifoEviction == EvictingStep /\ mmu.algorithm = "FIFO"

\* The pages of the current process that _evict_fifo invalidates.
FifoVictims ==
    {g \in ValidPages(mmu, current_process) :
        ~evict_fifo(mmu, current_process).mmu.page_table[current_process][g].valid}

SharedPair(e1, e2) ==
    /\ e1[1] # e2[1] /\ e1[2] = e2[2]
    /\ e1[2] \in mmu.shared_page_numbers
    /\ Entry(e1[1], e1[2]).read_only /\ Entry(e1[1], e1[2]).shared
    /\ Entry(e2[1], e2[2]).read_only /\ Entry(e2[1], e2[2]).shared

SameFrame(e1, e2) ==
    e1 # e2 /\ Entry(e1[1], e1[2]).frame = Entry(e2[1], e2[2]).frame

\* Without sharing no two valid entries hold the same frame.
FramesInjective ==
    ~mmu.enable_shared_memory =>
        \A e1, e2 \in ValidEntries : ~SameFrame(e1, e2)

(***************************************************************************)
(* C33.  In every reachable state two valid page table entries hold the    *)
(* same frame only if they are the entries of two different processes for  *)
(* the same shareable page and both are marked read-only and shared; with  *)
(* sharing disabled no two valid entries hold the same frame.              *)
(***************************************************************************)
C33_OneEntryPerFrameUnlessShared ==
    /\ \A e1, e2 \in ValidEntries : SameFrame(e1, e2) => SharedPair(e1, e2)
    /\ FramesInjective

(***************************************************************************)
(* C34.  In every reachable state the TLB agrees with the page tables:     *)
(* there is at most one valid TLB entry for a process and page, and the    *)
(* frame of a valid TLB entry is the frame of the process's valid page     *)
(* table entry for that page, so that the frame a TLB hit returns is the   *)
(* one the page table holds.                                               *)
(***************************************************************************)
C34_TlbCoherent ==
    /\ \A i, j \in Range(mmu.s) :
          /\ mmu.tlb[i].valid /\ mmu.tlb[j].valid
          /\ mmu.tlb[i].pid = mmu.tlb[j].pid
          /\ mmu.tlb[i].pageno = mmu.tlb[j].pageno
          => i = j
    /\ \A i \in Range(mmu.s) :
          mmu.tlb[i].valid =>
              /\ mmu.tlb[i].pid \in Procs
              /\ mmu.tlb[i].pageno \in Range(mmu.m)
              /\ Entry(mmu.tlb[i].pid, mmu.tlb[i].pageno).valid
              /\ Entry(mmu.tlb[i].pid, mmu.tlb[i].pageno).frame = mmu.tlb[i].frameno
    /\ \A p \in Procs : \A g \in Range(mmu.processes[p].m) :
          check_tlb(mmu, p, g).hit => check_tlb(mmu, p, g).frame = Entry(p, g).frame

\* A copy-on-write has just moved a page whose TLB entry was valid to another
\* frame, and a second TLB entry is valid beside it.
C34_Witness ==
    /\ Len(steps) > 1 /\ LastStep.event = "protection_fault_handled"
    /\ LET p == LastStep.process_id
           g == LastStep.page_number
       IN  /\ check_tlb(mmu, p, g).hit
           /\ \E i \in 1 .. Len(steps) - 1 :
                 /\ steps[i].process_id = p /\ steps[i].page_number = g
                 /\ steps[i].event = "page_fault_handled"
                 /\ steps[i].frame_number # LastStep.frame_number
    /\ Cardinality({i \in Range(mmu.s) : mmu.tlb[i].valid}) = 2

(***************************************************************************)
(* C35: a fault always finds a frame.                                      *)
(***************************************************************************)
\* A fault of the current process is about to be serviced with a frame of
\* its own: by handle_page_fault outside the sharing branch, or by
\* handle_protection_fault.
FrameWanted == pc \in {"page_fault", "protection_fault"} /\ ~SharingInstall

\* The test "Check if we need to evict a page" sends the fault to _evict_page.
MustEvict == Len(mmu.free_frames) = 0 \/ AtQuota(current_process)

\* The frame the service of the fault gets, from _evict_page or from
\* allocate.
FrameGot ==
    IF MustEvict
    THEN (IF mmu.core = "python" THEN py_evict_page(mmu, current_process)
          ELSE evict_page(mmu, current_process)).frame
    ELSE allocate(mmu.free_frames).frame

(***************************************************************************)
(* C35.  In every run of a configuration that configure accepts, a fault   *)
(* is sent to eviction only when the process has a valid page, so that a   *)
(* victim exists; the frame obtained, from the eviction or from the free   *)
(* pool, is a frame id in 0..num_frames-1; and allocate is never called on *)
(* an empty pool.                                                          *)
(***************************************************************************)
C35_FaultFindsFrame ==
    FrameWanted =>
        /\ MustEvict => ValidPages(mmu, current_process) # {}
        /\ ~MustEvict => Len(mmu.free_frames) > 0
        /\ FrameGot \in Frames

(***************************************************************************)
(* C36: the frame quotas handed out by configure.  QuotaSpec configures    *)
(* with up to two processes, up to three frames, and reference strings of  *)
(* one or two page numbers from -2..1, which                               *)
(* create_processes_with_references turns into quotas.                     *)
(***************************************************************************)
QuotaMaxFrames == 3

QuotaPageNumbers == -2 .. 1

QuotaStrings == UNION {[1 .. l -> QuotaPageNumbers] : l \in 1 .. 2}

QuotaConfigs ==
    UNION {
      {[core |-> "python",
        num_processes |-> k, max_pages_per_process |-> 2, num_frames |-> f,
        tlb_size |-> 1, algorithm |-> "LRU",
        auto_generate_references |-> FALSE, reference_strings |-> r,
        enable_shared_memory |-> FALSE]
       : f \in k .. QuotaMaxFrames, r \in [Range(k) -> QuotaStrings]}
      : k \in 1 .. 2}

ConfigureQuota == ConfigureFrom(QuotaConfigs)

QuotaNext ==
    \/ ConfigureQuota
    \/ Reset

QuotaSpec == Init /\ [][QuotaNext]_vars

\* configure has built the processes of a configuration with at least as
\* many frames as processes.
QuotasAssigned == mmu # NoMMU /\ mmu.k >= 1 /\ mmu.f >= mmu.k

(***************************************************************************)
(* C36.  For every configuration with at least as many frames as processes *)
(* that configure accepts, the quotas it assigns give every process at     *)
(* least one frame and add up to the number of frames, whichever processes *)
(* the leftover frames go to.                                              *)
(***************************************************************************)
C36_QuotasCoverFrames ==
    QuotasAssigned =>
        /\ \A p \in Procs : mmu.processes[p].allocount >= 1
        /\ SumOver(Quotas(mmu.processes), Procs) = mmu.f

(***************************************************************************)
(* C37: the MMU after a run.                                               *)
(***************************************************************************)
\* A run has ended and every process is complete.
RunComplete == RunSucceeded /\ mmu.k >= 1 /\ AllComplete

\* The free pool holds every frame id once.
PoolFull ==
    /\ Len(mmu.free_frames) = mmu.f
    /\ FreeSet = Frames

(***************************************************************************)
(* C37.  When a run ends with every process complete, the MMU is empty     *)
(* again: the free pool holds every frame id 0..num_frames-1 exactly once, *)
(* the physical memory map records no owner, no page table entry and no    *)
(* TLB entry is valid, and every usage counter is 0.                       *)
(***************************************************************************)
C37_EmptyAfterRun ==
    RunComplete =>
        /\ PoolFull
        /\ \A fr \in Frames : mmu.physical_memory[fr] = -1
        /\ ValidEntries = {}
        /\ \A i \in Range(mmu.s) : ~mmu.tlb[i].valid
        /\ \A p \in Procs : mmu.processes[p].usecount = 0

(***************************************************************************)
(* C38: the shape of the trace.                                            *)
(***************************************************************************)
\* Every page_fault step is followed at once by the page_fault_handled step
\* of the same process and page, and the frame of that step is the frame its
\* snapshot shows for the page.  The last step may be a page_fault whose
\* handling is under way.
FaultThenHandled ==
    \A i \in 1 .. Len(steps) :
        steps[i].event = "page_fault" =>
            IF i = Len(steps) THEN pc = "page_fault"
            ELSE LET h == steps[i + 1]
                     g == steps[i].page_number
                 IN  /\ h.event = "page_fault_handled"
                     /\ h.process_id = steps[i].process_id
                     /\ h.page_number = g
                     /\ g \in DOMAIN h.page_tables[h.process_id]
                     /\ h.page_tables[h.process_id][g] = h.frame_number

\* The snapshot of a step shows nothing of process p: no mapped page, no TLB
\* entry, no frame it owns.
ShowsNothingOf(step, p) ==
    /\ DOMAIN step.page_tables[p] = {}
    /\ \A i \in 1 .. Len(step.tlb_state) : step.tlb_state[i].pid # p
    /\ \A fr \in DOMAIN step.physical_memory : step.physical_memory[fr] # p

\* A process_complete step is the only one of its process, the last step of
\* the process, and its snapshot shows nothing of the process.
CompletionStepShape ==
    \A p \in Procs : \A i \in CompletionSteps(p) :
        /\ CompletionSteps(p) = {i}
        /\ LastStepOf(p) = i
        /\ ShowsNothingOf(steps[i], p)

\* At the end of a run that resolved references every process has its
\* process_complete step.
EveryProcessCompletes ==
    RunSucceeded /\ steps # <<>> => \A p \in Procs : CompletionSteps(p) # {}

(***************************************************************************)
(* C38.  The trace has a fixed shape: every page_fault step is followed at *)
(* once by a page_fault_handled step for the same process and page whose   *)
(* frame is the one then mapped for the page; every process has exactly    *)
(* one process_complete step, which is the last step of the process in the *)
(* trace and whose snapshot shows no valid mapping, no TLB entry and no    *)
(* owned frame of the process.                                             *)
(***************************************************************************)
C38_TraceShape ==
    /\ FaultThenHandled
    /\ CompletionStepShape
    /\ EveryProcessCompletes

(***************************************************************************)
(* Copy-on-write isolation.                                                *)
(***************************************************************************)
\* The valid entries of the page tables that may be written.
WritableEntries == {e \in ValidEntries : ~mmu.page_table[e[1]][e[2]].read_only}

\* No valid entry of another process references the frame of entry e.
PrivateFrame(e) ==
    \A o \in Holders(mmu.page_table[e[1]][e[2]].frame) : o[1] = e[1]

\* C39: with sharing enabled, the frame referenced by a valid writable page
\* table entry of one process is referenced by no valid entry of any other
\* process, also after a copy-on-write of a process at its quota that
\* evicted one of its own pages, the written shared page included.
C39_CopyOnWriteIsolation ==
    mmu.k >= 1 /\ mmu.enable_shared_memory =>
        \A e \in WritableEntries : PrivateFrame(e)

(***************************************************************************)
(* run_simulation called again.                                            *)
(***************************************************************************)
\* The orchestrator is configured and idle, and the last call made on it was
\* run_simulation: the next run_simulation is a second one with no configure
\* in between (configure and reset both overwrite the result).
SecondRunDue == pc = "idle" /\ config # NoConfig /\ result.call = "run_simulation"

\* A run is in progress that started with SecondRunDue.
InSecondRun == pc # "idle" /\ result.call = "run_simulation"

\* The step is a call of run_simulation made when SecondRunDue holds.
SecondRunCalled ==
    SecondRunDue /\ config' = config /\ result'.call = "run_simulation"

\* A second run is at the loop's test with an empty trace and the scheduler
\* complete: it has resolved no reference and cannot resolve one.
SecondRunResolvesNothing ==
    InSecondRun => pc = "loop" /\ steps = <<>> /\ is_simulation_complete

\* The second call clears the trace and goes to the loop's test, and the
\* loop returns success at once; neither changes the MMU or the scheduler,
\* so the counts of the result are those the first run left.
SecondRunReportsFirstCounts ==
    /\ SecondRunCalled =>
        /\ pc' = "loop" /\ steps' = <<>>
        /\ UNCHANGED <<mmu, ready_queue, completed_count>>
    /\ InSecondRun =>
        /\ pc' = "idle" /\ result' = Returned("run_simulation") /\ steps' = <<>>
        /\ generate_result(mmu') = generate_result(mmu)
        /\ UNCHANGED <<mmu, ready_queue, completed_count>>

\* run_simulation on an orchestrator without a configuration (never
\* configured, or reset) returns a failure and changes nothing else.
UnconfiguredRunFails ==
    pc = "idle" /\ config = NoConfig /\ config' = NoConfig /\ result' # Failed("configure") =>
        /\ result' = Failed("run_simulation")
        /\ UNCHANGED <<config, mmu, ready_queue, current_process, completed_count,
                       steps, is_running, access, pc>>

\* C40: a second run_simulation with no configure in between resolves no
\* reference (the scheduler is already complete) and returns success with an
\* empty trace and the counts of the first run; run_simulation before any
\* configure or after reset returns a failure and touches no state.
C40_SecondRunResolvesNothing ==
    /\ []SecondRunResolvesNothing
    /\ [][SecondRunReportsFirstCounts /\ UnconfiguredRunFails]_vars

\* A second run has returned: the trace is empty and the counts are not.
C40_Witness ==
    /\ pc = "idle" /\ result = Returned("run_simulation") /\ steps = <<>>
    /\ mmu.k >= 2 /\ AllComplete
    /\ generate_result(mmu).total_page_faults >= 2
    /\ generate_result(mmu).total_page_hits + generate_result(mmu).total_tlb_hits >= 1

====
